---- MODULE Spec2Model ----
(***************************************************************************)
(* FolderTree controller: the inheritance calculator, the diff analyzers,  *)
(* the reconciler that applies RoleBinding operations and the admission    *)
(* webhook that proves the requester's authority by impersonated dry-run.  *)
(*                                                                         *)
(* Go values are rendered as follows.  A slice is a sequence, a map is a   *)
(* function, a pointer is a sequence of length 0 (nil) or 1, a struct is a *)
(* record.  Strings built with fmt.Sprintf are built with \o.              *)
(***************************************************************************)
EXTENDS Integers, Sequences, FiniteSets, TLC

VARIABLES
    apiFolderTree,   \* the stored FolderTree "p1": <<>> or <<[name, spec, status]>>
    author,          \* ghost: grant key -> who introduced that grant's content, and
                     \*        whether a dry-run of theirs for it succeeded
    apiNamespaces,   \* the names of the existing Namespaces
    apiRoleBindings, \* the live RoleBindings, keyed "namespace/name"
    provenance,      \* ghost: grant key -> the attribution the reconciler wrote it under
    orphans,         \* keys of live RoleBindings whose owner reference dangles
    missed,          \* ghost: keys whose create was skipped since the spec last changed
    rec,             \* the reconciler: position, snapshot, operations not yet executed
    queued,          \* a reconcile request for "p1" is in the work queue
    quiet,           \* the environment has stopped acting and backend calls succeed
    adm,             \* webhook harness: <<>> or the last admission response
    calcIn,          \* calculator harness: the FolderTree handed to the calculator
    calcOut,         \* calculator harness: <<>> before the call, <<map>> after it
    diffIn,          \* diff harness: the old and the new FolderTree handed to the analyzers
    diffOut,         \* diff harness: <<>> before the call, <<operations>> after it
    apiFolderTrees,  \* uniqueness harness: the stored FolderTrees, by name
    inFlight         \* uniqueness harness: the writes validated and not yet persisted

vars == <<apiFolderTree, author, apiNamespaces, apiRoleBindings, provenance, orphans, missed,
          rec, queued, quiet, adm, calcIn, calcOut, diffIn, diffOut, apiFolderTrees, inFlight>>

sysVars == <<apiFolderTree, author, apiNamespaces, apiRoleBindings, provenance, orphans,
             missed, rec, queued, quiet>>

listVars == <<apiFolderTrees, inFlight>>

(***************************************************************************)
(* Generic helpers for Go maps and slices.                                 *)
(***************************************************************************)
EmptyMap == [k \in {} |-> {}]

\* m[k] = v of a Go map: a later write to the same key replaces the earlier one.
Put(m, k, v) == [x \in (DOMAIN m) \cup {k} |-> IF x = k THEN v ELSE m[x]]

Range(s) == {s[i] : i \in DOMAIN s}

Nil == <<>>
Ptr(v) == <<v>>

(***************************************************************************)
(* api/v1alpha1 types.                                                     *)
(***************************************************************************)
RbacGroup == "rbac.authorization.k8s.io"

Subject(name) == [kind |-> "User", apiGroup |-> RbacGroup, name |-> name, namespace |-> ""]

RoleRef(name) == [apiGroup |-> RbacGroup, kind |-> "ClusterRole", name |-> name]

RoleBindingTemplate(name, subjects, roleRef, propagate) ==
    [name |-> name, subjects |-> subjects, roleRef |-> roleRef, propagate |-> propagate]

\* The zero value RoleBindingTemplate{}.
EmptyTemplate ==
    [name |-> "", subjects |-> <<>>, roleRef |-> [apiGroup |-> "", kind |-> "", name |-> ""],
     propagate |-> Nil]

Folder(name, templates, namespaces) ==
    [name |-> name, roleBindingTemplates |-> templates, namespaces |-> namespaces]

TreeNode(name, subfolders) == [name |-> name, subfolders |-> subfolders]

FolderTreeSpec(tree, folders) == [tree |-> tree, folders |-> folders]

\* A FolderTree as the calculator and the builder read it: metadata.name and spec.
FolderTree(name, spec) == [name |-> name, spec |-> spec]

(***************************************************************************)
(* rbac.RoleBindingBuilder                                                 *)
(***************************************************************************)
RoleBindingBuilder(folderTreeName, withScheme) ==
    [folderTree |-> folderTreeName, scheme |-> withScheme]

\* Mutant of RoleBindingName: the name is made of the template's name alone.
RoleBindingName_TemplateOnly(folderTreeName, templateName) == "foldertree-" \o templateName

RoleBindingName(folderTreeName, templateName) ==
    "foldertree-" \o folderTreeName \o "-" \o templateName

ManagedLabels(folderTreeName, templateName) ==
    [k \in {"app.kubernetes.io/managed-by", "foldertree.rbac.kubevirt.io/tree",
            "foldertree.rbac.kubevirt.io/role-binding-template"} |->
        IF k = "app.kubernetes.io/managed-by" THEN "foldertree-controller"
        ELSE IF k = "foldertree.rbac.kubevirt.io/tree" THEN folderTreeName
        ELSE templateName]

\* The owner reference is set only when the builder has a scheme (the controller's
\* builder and the DELETE validation's builder; not the create/update validation's).
BuildRoleBindingFromTemplate(builder, namespace, roleBindingTemplate) ==
    [name        |-> RoleBindingName(builder.folderTree, roleBindingTemplate.name),
     namespace   |-> namespace,
     labels      |-> ManagedLabels(builder.folderTree, roleBindingTemplate.name),
     annotations |-> EmptyMap,
     subjects    |-> roleBindingTemplate.subjects,
     roleRef     |-> roleBindingTemplate.roleRef,
     owner       |-> IF builder.scheme THEN Ptr(builder.folderTree) ELSE Nil]

\* The builder of processOperations: it has a scheme, so it sets the owner reference.
ControllerBuilder(ft) == RoleBindingBuilder(ft.name, TRUE)

(***************************************************************************)
(* rbac.CalculateDesiredRoleBindings                                       *)
(***************************************************************************)
DesiredKey(namespace, name) == namespace \o "/" \o name

DesiredRoleBinding(builder, namespace, roleBindingTemplate) ==
    [namespace           |-> namespace,
     roleBindingTemplate |-> roleBindingTemplate,
     roleBinding         |-> BuildRoleBindingFromTemplate(builder, namespace, roleBindingTemplate)]

\* The inner loop: for _, roleBindingTemplate := range templates { desired[key] = ... }
RECURSIVE EmitTemplates(_, _, _, _)
EmitTemplates(desired, builder, namespace, templates) ==
    IF templates = <<>> THEN desired
    ELSE LET t  == Head(templates)
             rb == DesiredRoleBinding(builder, namespace, t)
         IN EmitTemplates(Put(desired, DesiredKey(namespace, rb.roleBinding.name), rb),
                          builder, namespace, Tail(templates))

\* The outer loop: for _, namespace := range folder.Namespaces { ... }
RECURSIVE EmitNamespaces(_, _, _, _)
EmitNamespaces(desired, builder, namespaces, templates) ==
    IF namespaces = <<>> THEN desired
    ELSE EmitNamespaces(EmitTemplates(desired, builder, Head(namespaces), templates),
                        builder, Tail(namespaces), templates)

\* folderMap[folder.Name] = folder, in slice order: the last folder of a name wins.
RECURSIVE FolderMap(_, _)
FolderMap(m, folders) ==
    IF folders = <<>> THEN m
    ELSE FolderMap(Put(m, Head(folders).name, Head(folders)), Tail(folders))

\* Mutant of ShouldPropagate: an unset propagate field read as true.
ShouldPropagate_NilTrue(template) == template.propagate = Nil \/ template.propagate[1]

\* shouldPropagate := template.Propagate != nil && *template.Propagate
ShouldPropagate(template) == template.propagate # Nil /\ template.propagate[1]

\* This folder's templates that should propagate, in slice order.
PropagatingTemplates(templates) == SelectSeq(templates, ShouldPropagate)

\* Mutant of TemplatesToInherit: a tree node without a folder entry passes nothing on.
TemplatesToInherit_DropAtStructural(node, folderMap, inheritedRoleBindingTemplates) ==
    IF node.name \in DOMAIN folderMap
    THEN inheritedRoleBindingTemplates
            \o PropagatingTemplates(folderMap[node.name].roleBindingTemplates)
    ELSE <<>>

\* The templates handed to the subfolders of a tree node: the inherited ones, then the
\* propagating ones of the node's folder; the inherited ones alone when the node has no
\* folder entry.
TemplatesToInherit(node, folderMap, inheritedRoleBindingTemplates) ==
    IF node.name \in DOMAIN folderMap
    THEN inheritedRoleBindingTemplates
            \o PropagatingTemplates(folderMap[node.name].roleBindingTemplates)
    ELSE inheritedRoleBindingTemplates

RECURSIVE calculateFromTreeNode(_, _, _, _, _)
RECURSIVE calculateSubfolders(_, _, _, _, _)

calculateFromTreeNode(node, folderMap, inheritedRoleBindingTemplates, desired, builder) ==
    LET exists == node.name \in DOMAIN folderMap
        folder == folderMap[node.name]
        allRoleBindingTemplates == inheritedRoleBindingTemplates \o folder.roleBindingTemplates
        emitted ==
            IF exists
            THEN EmitNamespaces(desired, builder, folder.namespaces, allRoleBindingTemplates)
            ELSE desired
        templatesToInherit == TemplatesToInherit(node, folderMap, inheritedRoleBindingTemplates)
    IN calculateSubfolders(node.subfolders, folderMap, templatesToInherit, emitted, builder)

\* for _, subfolder := range node.Subfolders { calculateFromTreeNode(subfolder, ...) }
calculateSubfolders(subfolders, folderMap, templatesToInherit, desired, builder) ==
    IF subfolders = <<>> THEN desired
    ELSE calculateSubfolders(
            Tail(subfolders), folderMap, templatesToInherit,
            calculateFromTreeNode(Head(subfolders), folderMap, templatesToInherit, desired, builder),
            builder)

RECURSIVE isInTreeNode(_, _)
isInTreeNode(folderName, node) ==
    \/ node.name = folderName
    \/ \E i \in DOMAIN node.subfolders : isInTreeNode(folderName, node.subfolders[i])

isInTree(folderName, tree) == tree # Nil /\ isInTreeNode(folderName, tree[1])

\* Mutant of IsStandalone: the negation forgotten.
IsStandalone_Inverted(folder, tree) == isInTree(folder.name, tree)

\* if !isInTree(folder.Name, folderTree.Spec.Tree)
IsStandalone(folder, tree) == ~isInTree(folder.name, tree)

\* The second loop of CalculateDesiredRoleBindings: folders not in the tree.
RECURSIVE calculateStandalone(_, _, _, _)
calculateStandalone(desired, builder, folders, tree) ==
    IF folders = <<>> THEN desired
    ELSE LET folder == Head(folders)
             emitted ==
                 IF IsStandalone(folder, tree)
                 THEN EmitNamespaces(desired, builder, folder.namespaces,
                                     folder.roleBindingTemplates)
                 ELSE desired
         IN calculateStandalone(emitted, builder, Tail(folders), tree)

\* The map DesiredRoleBindingSet.RoleBindings, keyed "namespace/name".
CalculateDesiredRoleBindings(folderTree, builder) ==
    LET folderMap == FolderMap(EmptyMap, folderTree.spec.folders)
        fromTree ==
            IF folderTree.spec.tree # Nil
            THEN calculateFromTreeNode(folderTree.spec.tree[1], folderMap, <<>>, EmptyMap, builder)
            ELSE EmptyMap
    IN calculateStandalone(fromTree, builder, folderTree.spec.folders, folderTree.spec.tree)

(***************************************************************************)
(* rbac.RoleBindingOperation and rbac.DiffAnalyzer (cluster state against  *)
(* the FolderTree).  A Go slice filled while ranging over a map has no     *)
(* fixed order: the analyzers return the set of operations, and the loops  *)
(* that consume the slice take any order that puts the operations of the   *)
(* first loop (create, update) before those of the second (delete).        *)
(***************************************************************************)
OperationCreate == "create"

OperationUpdate == "update"

OperationDelete == "delete"

RoleBindingOperation(type, namespace, roleBindingTemplate, existingRoleBinding, desiredRoleBinding) ==
    [type                |-> type,
     namespace           |-> namespace,
     roleBindingTemplate |-> roleBindingTemplate,
     existingRoleBinding |-> existingRoleBinding,
     desiredRoleBinding  |-> desiredRoleBinding]

\* The namespace/name of the RoleBinding an operation is about.
OperationKey(operation) ==
    IF operation.type = OperationCreate
    THEN DesiredKey(operation.namespace, operation.desiredRoleBinding[1].name)
    ELSE DesiredKey(operation.existingRoleBinding[1].namespace,
                    operation.existingRoleBinding[1].name)

\* fmt.Sprintf("%s:%s:%s:%s", subject.Kind, subject.Name, subject.Namespace, subject.APIGroup)
SubjectKey(subject) ==
    subject.kind \o ":" \o subject.name \o ":" \o subject.namespace \o ":" \o subject.apiGroup

\* for _, subject := range a { aMap[key] = subject }
RECURSIVE SubjectMap(_, _)
SubjectMap(m, subjects) ==
    IF subjects = <<>> THEN m
    ELSE SubjectMap(Put(m, SubjectKey(Head(subjects)), Head(subjects)), Tail(subjects))

\* Equal lengths, and every key of a's map is in b's map with the same subject.
subjectsEqual(a, b) ==
    IF Len(a) # Len(b) THEN FALSE
    ELSE LET aMap == SubjectMap(EmptyMap, a)
             bMap == SubjectMap(EmptyMap, b)
         IN \A key \in DOMAIN aMap : key \in DOMAIN bMap /\ aMap[key] = bMap[key]

\* Mutant of needsUpdate: every RoleBinding found under a desired key is updated.
needsUpdate_Always(existing, desired) == TRUE

needsUpdate(existing, desired) ==
    \/ ~subjectsEqual(existing.subjects, desired.subjects)
    \/ existing.roleRef # desired.roleRef
    \/ \E key \in DOMAIN desired.labels :
          key \notin DOMAIN existing.labels \/ existing.labels[key] # desired.labels[key]

TreeLabel == "foldertree.rbac.kubevirt.io/tree"

\* Mutant of getExistingRoleBindings: the List call carries no label selector.
getExistingRoleBindings_All(live, folderTreeName) == live

\* List with MatchingLabels{tree: name}, keyed "namespace/name".
getExistingRoleBindings(live, folderTreeName) ==
    LET matching == { k \in DOMAIN live :
                        /\ TreeLabel \in DOMAIN live[k].labels
                        /\ live[k].labels[TreeLabel] = folderTreeName }
    IN [k \in matching |-> live[k]]

\* Mutant of compareAndGenerateOperations: the second loop, over the existing
\* RoleBindings, is left out.
compareAndGenerateOperations_NoDeletes(existing, desired) ==
    { IF key \in DOMAIN existing
      THEN RoleBindingOperation(OperationUpdate, desired[key].namespace,
                                desired[key].roleBindingTemplate,
                                Ptr(existing[key]), Ptr(desired[key].roleBinding))
      ELSE RoleBindingOperation(OperationCreate, desired[key].namespace,
                                desired[key].roleBindingTemplate,
                                Nil, Ptr(desired[key].roleBinding)) :
        key \in { k \in DOMAIN desired :
                    k \in DOMAIN existing => needsUpdate(existing[k], desired[k].roleBinding) } }

compareAndGenerateOperations(existing, desired) ==
    { IF key \in DOMAIN existing
      THEN RoleBindingOperation(OperationUpdate, desired[key].namespace,
                                desired[key].roleBindingTemplate,
                                Ptr(existing[key]), Ptr(desired[key].roleBinding))
      ELSE RoleBindingOperation(OperationCreate, desired[key].namespace,
                                desired[key].roleBindingTemplate,
                                Nil, Ptr(desired[key].roleBinding)) :
        key \in { k \in DOMAIN desired :
                    k \in DOMAIN existing => needsUpdate(existing[k], desired[k].roleBinding) } }
    \cup
    { RoleBindingOperation(OperationDelete, existing[key].namespace, EmptyTemplate,
                           Ptr(existing[key]), Nil) :
        key \in DOMAIN existing \ DOMAIN desired }

AnalyzeDiff(live, ft, builder) ==
    compareAndGenerateOperations(getExistingRoleBindings(live, ft.name),
                                 CalculateDesiredRoleBindings(ft, builder))

(***************************************************************************)
(* rbac.WebhookDiffAnalyzer (old FolderTree against new FolderTree).       *)
(***************************************************************************)
WebhookSubjectsEqual(a, b) ==
    IF Len(a) # Len(b) THEN FALSE
    ELSE LET aMap == SubjectMap(EmptyMap, a)
             bMap == SubjectMap(EmptyMap, b)
         IN \A key \in DOMAIN aMap : key \in DOMAIN bMap /\ aMap[key] = bMap[key]

\* Mutant of WebhookNeedsUpdate: every key of both desired states is updated.
WebhookNeedsUpdate_Always(existing, desired) == TRUE

WebhookNeedsUpdate(existing, desired) ==
    \/ ~WebhookSubjectsEqual(existing.subjects, desired.subjects)
    \/ existing.roleRef # desired.roleRef
    \/ \E key \in DOMAIN desired.labels :
          key \notin DOMAIN existing.labels \/ existing.labels[key] # desired.labels[key]

compareDesiredStates(oldDesired, newDesired) ==
    { IF key \in DOMAIN oldDesired
      THEN RoleBindingOperation(OperationUpdate, newDesired[key].namespace,
                                newDesired[key].roleBindingTemplate,
                                Ptr(oldDesired[key].roleBinding),
                                Ptr(newDesired[key].roleBinding))
      ELSE RoleBindingOperation(OperationCreate, newDesired[key].namespace,
                                newDesired[key].roleBindingTemplate,
                                Nil, Ptr(newDesired[key].roleBinding)) :
        key \in { k \in DOMAIN newDesired :
                    k \in DOMAIN oldDesired =>
                        WebhookNeedsUpdate(oldDesired[k].roleBinding,
                                           newDesired[k].roleBinding) } }
    \cup
    { RoleBindingOperation(OperationDelete, oldDesired[key].namespace,
                           oldDesired[key].roleBindingTemplate,
                           Ptr(oldDesired[key].roleBinding), Nil) :
        key \in DOMAIN oldDesired \ DOMAIN newDesired }

\* Both desired states are calculated with the one builder, which names the new FolderTree.
AnalyzeFolderTreeDiff(oldFolderTree, newFolderTree, builder) ==
    LET oldDesired == IF oldFolderTree # Nil
                      THEN CalculateDesiredRoleBindings(oldFolderTree[1], builder)
                      ELSE EmptyMap
        newDesired == CalculateDesiredRoleBindings(newFolderTree, builder)
    IN compareDesiredStates(oldDesired, newDesired)

\* The orders in which a loop may meet the operations of a slice built by the two
\* loops of an analyzer: creates and updates in any order, then deletes in any order.
OperationSlices(operations) ==
    LET n == Cardinality(operations) IN
    { s \in [1..n -> operations] :
        /\ \A i, j \in 1..n : i # j => s[i] # s[j]
        /\ \A i, j \in 1..n :
              (s[i].type = OperationDelete /\ s[j].type # OperationDelete) => j < i }

(***************************************************************************)
(* webhook/v1alpha1: validation of the FolderTree itself.  The DNS-1123    *)
(* format of names is not modelled (every name used below is well formed), *)
(* nor are the size limits (100 folders, 100 tree nodes, 500 namespaces,   *)
(* 200 templates), which no FolderTree used below approaches; there is one *)
(* FolderTree, so validateGlobalUniqueness finds no other to conflict with.*)
(***************************************************************************)
validateRoleBindingTemplate(roleBindingTemplate) ==
    /\ roleBindingTemplate.subjects # <<>>
    /\ \A i \in DOMAIN roleBindingTemplate.subjects :
          LET subject == roleBindingTemplate.subjects[i] IN
          /\ subject.kind # ""
          /\ subject.name # ""
          /\ (subject.kind \in {"Group", "User"}) => subject.apiGroup = RbacGroup
    /\ roleBindingTemplate.roleRef.kind # ""
    /\ roleBindingTemplate.roleRef.name # ""
    /\ roleBindingTemplate.roleRef.apiGroup = RbacGroup

validateFolder(folder) ==
    /\ folder.name # ""
    /\ \A i \in DOMAIN folder.roleBindingTemplates :
          validateRoleBindingTemplate(folder.roleBindingTemplates[i])
    /\ \A i \in DOMAIN folder.namespaces : folder.namespaces[i] # ""

RECURSIVE validateTreeNode(_)
validateTreeNode(treeNode) ==
    /\ treeNode.name # ""
    /\ \A i \in DOMAIN treeNode.subfolders : validateTreeNode(treeNode.subfolders[i])

validateNewStructure(ft) ==
    /\ ft.spec.tree # Nil => validateTreeNode(ft.spec.tree[1])
    /\ \A i \in DOMAIN ft.spec.folders : validateFolder(ft.spec.folders[i])

\* No value occurs twice in the sequence.
NoDuplicates(s) == \A i, j \in DOMAIN s : i # j => s[i] # s[j]

RECURSIVE Flatten(_)
Flatten(seqs) == IF seqs = <<>> THEN <<>> ELSE Head(seqs) \o Flatten(Tail(seqs))

\* The names of the tree nodes, in the order validateUniqueTreeNodeNames visits them.
RECURSIVE TreeNodeNames(_)
TreeNodeNames(treeNode) ==
    <<treeNode.name>>
        \o Flatten([i \in DOMAIN treeNode.subfolders |-> TreeNodeNames(treeNode.subfolders[i])])

\* Mutant of validateTreeInheritanceConflicts: no name is compared.
validateTreeInheritanceConflicts_Lenient(treeNode, folderMap, inheritedTemplateNames) == TRUE

\* TRUE when no template of a folder is named like a template of a folder above it,
\* propagating or not.
RECURSIVE validateTreeInheritanceConflicts(_, _, _)
validateTreeInheritanceConflicts(treeNode, folderMap, inheritedTemplateNames) ==
    IF treeNode.name \in DOMAIN folderMap
    THEN LET templates == folderMap[treeNode.name].roleBindingTemplates
             currentTemplateNames == { templates[j].name : j \in DOMAIN templates }
         IN /\ currentTemplateNames \cap inheritedTemplateNames = {}
            /\ \A i \in DOMAIN treeNode.subfolders :
                  validateTreeInheritanceConflicts(
                      treeNode.subfolders[i], folderMap,
                      inheritedTemplateNames \cup currentTemplateNames)
    ELSE \A i \in DOMAIN treeNode.subfolders :
            validateTreeInheritanceConflicts(treeNode.subfolders[i], folderMap,
                                             inheritedTemplateNames)

validateInheritanceConflicts(ft) ==
    ft.spec.tree # Nil =>
        validateTreeInheritanceConflicts(ft.spec.tree[1], FolderMap(EmptyMap, ft.spec.folders), {})

\* Every tree node names a declared folder, and no folder outside the tree is empty.
validateFolderReferences(ft) ==
    LET declaredFolders == { ft.spec.folders[i].name : i \in DOMAIN ft.spec.folders }
        referenced == IF ft.spec.tree = Nil THEN {} ELSE Range(TreeNodeNames(ft.spec.tree[1]))
    IN /\ referenced \subseteq declaredFolders
       /\ \A i \in DOMAIN ft.spec.folders :
             LET folder == ft.spec.folders[i] IN
             folder.name \notin referenced =>
                 (folder.namespaces # <<>> \/ folder.roleBindingTemplates # <<>>)

validateBusinessLogic(ft) ==
    LET folders == ft.spec.folders IN
    /\ \E i \in DOMAIN folders : folders[i].namespaces # <<>>
    /\ NoDuplicates([i \in DOMAIN folders |-> folders[i].name])
    /\ \A i \in DOMAIN folders :
          NoDuplicates([j \in DOMAIN folders[i].roleBindingTemplates |->
                            folders[i].roleBindingTemplates[j].name])
    /\ NoDuplicates(Flatten([i \in DOMAIN folders |-> folders[i].namespaces]))
    /\ ft.spec.tree # Nil => NoDuplicates(TreeNodeNames(ft.spec.tree[1]))
    /\ validateInheritanceConflicts(ft)
    /\ validateFolderReferences(ft)

(***************************************************************************)
(* webhook/v1alpha1: proof of the requester's authority.  The backend      *)
(* answers an impersonated dry-run as it would answer the real call: the   *)
(* user must be authorized for RoleBindings of the namespace; a create     *)
(* needs the namespace to exist, an update or a delete needs the object to *)
(* exist.  An admission request is <<>> when the context carries none,     *)
(* else <<[userInfo, subResource]>>.                                       *)
(***************************************************************************)
ControllerIdentity == "system:serviceaccount:folders-system:folder-controller-manager"

SystemAdmin == "system:admin"

\* The identity the controller runs under as the project deploys it: namespace
\* foldertree-system, service account foldertree-controller-manager.
serviceAccountName == "foldertree-controller-manager"

ServiceAccountIdentity ==
    "system:serviceaccount:foldertree-system:" \o serviceAccountName

UserInfo(username) == [username |-> username]

AdmissionRequest(username, subResource) ==
    Ptr([userInfo |-> UserInfo(username), subResource |-> subResource])

\* The cluster's RBAC: the namespaces whose RoleBindings a user may write.  The user
\* named system:admin holds no authority here: the name alone grants none.
Authority(username) ==
    IF username \in {"alice", ControllerIdentity, ServiceAccountIdentity}
    THEN {"ns1", "ns2", "ns3"}
    ELSE IF username = "bob" THEN {"ns2"}
    ELSE {}

\* The readings metav1.Now().UnixNano() may give while a request is validated.
UnixNanoReadings == {1, 2}

\* Mutant of GenerateRandomRoleBindingName: the name comes back as it was passed.
GenerateRandomRoleBindingName_Same(folderTreeName, permissionName, now) == folderTreeName

\* fmt.Sprintf("dryrun-foldertree-%s-%s-%d", folderTreeName, permissionName, now)
GenerateRandomRoleBindingName(folderTreeName, permissionName, now) ==
    "dryrun-foldertree-" \o folderTreeName \o "-" \o permissionName \o "-" \o ToString(now)

\* The object a dry-run sends.  CREATE: a copy of the desired RoleBinding renamed by
\* GenerateRandomRoleBindingName, which is handed the RoleBinding's name and the
\* template's.  UPDATE: a copy of the existing one with the desired subjects, roleRef
\* and labels.  DELETE: the existing one.
TestRoleBinding(operation, now) ==
    IF operation.type = OperationCreate
    THEN [operation.desiredRoleBinding[1] EXCEPT
             !.name = GenerateRandomRoleBindingName(@, operation.roleBindingTemplate.name, now)]
    ELSE IF operation.type = OperationUpdate
    THEN [operation.existingRoleBinding[1] EXCEPT
             !.subjects = operation.desiredRoleBinding[1].subjects,
             !.roleRef = operation.desiredRoleBinding[1].roleRef,
             !.labels = operation.desiredRoleBinding[1].labels]
    ELSE operation.existingRoleBinding[1]

\* Mutant of DryRunAll: the calls are sent without the option.
DryRunAll_Unset == FALSE

\* client.DryRunAll, the option every call of the validation carries.
DryRunAll == TRUE

\* What the API server stores when it has accepted a write of a RoleBinding: nothing
\* changes when the call carries the dry-run option.
Stored(live, type, roleBinding, dryRun) ==
    LET key == DesiredKey(roleBinding.namespace, roleBinding.name)
    IN IF dryRun THEN live
       ELSE IF type = OperationDelete THEN [k \in DOMAIN live \ {key} |-> live[k]]
       ELSE Put(live, key, roleBinding)

\* The clock is read inside the call: the create is taken to succeed when the API
\* server accepts it under every reading (it refuses a name that is taken).
validateCreateOperation(userInfo, operation, nss, live) ==
    \A now \in UnixNanoReadings :
        LET testRoleBinding == TestRoleBinding(operation, now)
        IN /\ testRoleBinding.namespace \in Authority(userInfo.username)
           /\ testRoleBinding.namespace \in nss
           /\ DesiredKey(testRoleBinding.namespace, testRoleBinding.name) \notin DOMAIN live

validateUpdateOperation(userInfo, operation, nss, live) ==
    /\ operation.existingRoleBinding[1].namespace \in Authority(userInfo.username)
    /\ OperationKey(operation) \in DOMAIN live

validateDeleteOperation(userInfo, operation, nss, live) ==
    /\ operation.existingRoleBinding[1].namespace \in Authority(userInfo.username)
    /\ OperationKey(operation) \in DOMAIN live

validateSingleOperation(userInfo, operation, nss, live) ==
    IF operation.type = OperationCreate
    THEN validateCreateOperation(userInfo, operation, nss, live)
    ELSE IF operation.type = OperationUpdate
    THEN validateUpdateOperation(userInfo, operation, nss, live)
    ELSE validateDeleteOperation(userInfo, operation, nss, live)

\* A dry-run as the response records it: the kind of call and the grant it is about.
DryRun(operation) == [type |-> operation.type, key |-> OperationKey(operation)]

\* One more occurrence of e in the bag b.
BagAdd(b, e) == IF e \in DOMAIN b THEN [b EXCEPT ![e] = @ + 1] ELSE Put(b, e, 1)

\* The outcome of an authorization check: the verdict, the dry-runs attempted (a bag)
\* and the dry-run that failed, if one did.
AuthorizationResult(allowed, attempted, failed) ==
    [allowed |-> allowed, attempted |-> attempted, failed |-> failed]

\* return nil before any dry-run.
NotChecked == AuthorizationResult(TRUE, EmptyMap, Nil)

\* Mutant of OnDryRunFailure: the failure is noted and the request goes through.
OnDryRunFailure_Admit(attempted, failed) == AuthorizationResult(TRUE, attempted, Ptr(failed))

\* if err := validate...(operation); err != nil { return fmt.Errorf(...) }
OnDryRunFailure(attempted, failed) == AuthorizationResult(FALSE, attempted, Ptr(failed))

\* for _, operation := range operations { if err := ...; err != nil { return err } }
RECURSIVE validateOperations(_, _, _, _, _)
validateOperations(operations, userInfo, nss, live, attempted) ==
    IF operations = <<>> THEN AuthorizationResult(TRUE, attempted, Nil)
    ELSE LET operation == Head(operations)
             tried == BagAdd(attempted, DryRun(operation))
         IN IF validateSingleOperation(userInfo, operation, nss, live)
            THEN validateOperations(Tail(operations), userInfo, nss, live, tried)
            ELSE OnDryRunFailure(tried, DryRun(operation))

validateOperationsWithImpersonation(operations, userInfo, nss, live) ==
    validateOperations(operations, userInfo, nss, live, EmptyMap)

\* The RoleBindings stored once the dry-runs of a validation have been answered: each
\* call the API server accepted has acted on the store as its option lets it.  now: the
\* reading of the clock for the names of the creates.
RECURSIVE AfterDryRuns(_, _, _, _)
AfterDryRuns(operations, response, live, now) ==
    IF operations = <<>> THEN live
    ELSE LET operation == Head(operations)
         IN IF \/ DryRun(operation) \notin DOMAIN response.attempted
               \/ response.failed = Ptr(DryRun(operation))
            THEN live
            ELSE AfterDryRuns(Tail(operations), response,
                              Stored(live, operation.type, TestRoleBinding(operation, now),
                                     DryRunAll),
                              now)

\* The slices AnalyzeFolderTreeDiff may return for an old and a new FolderTree.
WebhookOperationSlices(oldFolderTree, newFolderTree) ==
    OperationSlices(AnalyzeFolderTreeDiff(oldFolderTree, newFolderTree,
                                          RoleBindingBuilder(newFolderTree.name, FALSE)))

\* Mutant of validateRBACAuthorizationUpdate: a request for the status subresource is
\* checked like any other.
validateRBACAuthorizationUpdate_StatusChecked(req, operations, nss, live) ==
    IF req = Nil THEN NotChecked
    ELSE validateOperationsWithImpersonation(operations, req[1].userInfo, nss, live)

\* operations: the slice AnalyzeFolderTreeDiff returned.
validateRBACAuthorizationUpdate(req, operations, nss, live) ==
    IF req = Nil THEN NotChecked
    ELSE IF req[1].subResource = "status" THEN NotChecked
    ELSE validateOperationsWithImpersonation(operations, req[1].userInfo, nss, live)

\* Mutant of DeleteOperationSlices: the desired state is calculated without the tree,
\* so that no grant a folder inherits is in it.
DeleteOperationSlices_OwnOnly(ft) ==
    LET desiredState ==
            CalculateDesiredRoleBindings(
                FolderTree(ft.name, FolderTreeSpec(Nil, ft.spec.folders)),
                RoleBindingBuilder(ft.name, TRUE))
    IN OperationSlices(
          { RoleBindingOperation(OperationDelete, desiredState[k].namespace,
                                 desiredState[k].roleBindingTemplate,
                                 Ptr(desiredState[k].roleBinding), Nil) :
              k \in DOMAIN desiredState })

\* The orders in which the DELETE validation may range over the full desired state.
DeleteOperationSlices(ft) ==
    LET desiredState == CalculateDesiredRoleBindings(ft, RoleBindingBuilder(ft.name, TRUE))
    IN OperationSlices(
          { RoleBindingOperation(OperationDelete, desiredState[k].namespace,
                                 desiredState[k].roleBindingTemplate,
                                 Ptr(desiredState[k].roleBinding), Nil) :
              k \in DOMAIN desiredState })

\* if req.UserInfo.Username == "system:serviceaccount:..." || ... == "system:admin"
ExemptFromDeleteValidation(userInfo) ==
    userInfo.username = ControllerIdentity \/ userInfo.username = SystemAdmin

\* operations: the full desired state in the order the loop ranges over it.
validateRBACAuthorizationDelete(req, operations, nss, live) ==
    IF req = Nil THEN NotChecked
    ELSE IF ExemptFromDeleteValidation(req[1].userInfo) THEN NotChecked
    ELSE validateOperations(operations, req[1].userInfo, nss, live, EmptyMap)

(***************************************************************************)
(* Error messages.  A message is the sequence of the pieces fmt.Sprintf    *)
(* and fmt.Errorf join: the arguments, and the literal text between them   *)
(* (the word for the kind of operation is kept as a piece of its own).     *)
(* The text of the backend's own error is left out.                        *)
(***************************************************************************)
\* String with a DELETE described as validateRBACAuthorizationDelete describes it: the
\* description that would name the template for every kind of operation.
String_WithTemplate(operation) ==
    IF operation.type = OperationCreate
    THEN <<"CREATE", " RoleBinding '", operation.desiredRoleBinding[1].name,
           "' in namespace '", operation.namespace,
           "' for template '", operation.roleBindingTemplate.name, "'">>
    ELSE <<IF operation.type = OperationUpdate THEN "UPDATE" ELSE "DELETE",
           " RoleBinding '", operation.existingRoleBinding[1].name,
           "' in namespace '", operation.namespace,
           "' for template '", operation.roleBindingTemplate.name, "'">>

\* RoleBindingOperation.String
String(operation) ==
    IF operation.type = OperationCreate
    THEN <<"CREATE", " RoleBinding '", operation.desiredRoleBinding[1].name,
           "' in namespace '", operation.namespace,
           "' for template '", operation.roleBindingTemplate.name, "'">>
    ELSE IF operation.type = OperationUpdate
    THEN <<"UPDATE", " RoleBinding '", operation.existingRoleBinding[1].name,
           "' in namespace '", operation.namespace,
           "' for template '", operation.roleBindingTemplate.name, "'">>
    ELSE <<"DELETE", " RoleBinding '", operation.existingRoleBinding[1].name,
           "' in namespace '", operation.namespace, "'">>

\* The error of validateCreateOperation, validateUpdateOperation, validateDeleteOperation.
DryRunError(operation) ==
    IF operation.type = OperationCreate
    THEN <<"dry-run creation failed (user lacks required permissions): ">>
    ELSE IF operation.type = OperationUpdate
    THEN <<"dry-run update failed (user lacks required permissions): ">>
    ELSE <<"dry-run deletion failed (user lacks required permissions): ">>

\* The error validateRBACAuthorizationUpdate returns when the dry-run of operation
\* failed: validateOperationsWithImpersonation's, wrapped.
UpdateRejection(operation) ==
    <<"privilege escalation prevented: ", "failed to validate ">> \o String(operation)
        \o <<": ">> \o DryRunError(operation)

\* The error validateRBACAuthorizationDelete returns when the dry-run of operation
\* failed.
DeleteRejection(operation) ==
    <<"privilege escalation prevented: failed to validate ", "DELETE", " RoleBinding '",
      operation.existingRoleBinding[1].name, "' in namespace '", operation.namespace,
      "' for template '", operation.roleBindingTemplate.name, "': ">>
        \o DryRunError(operation)

\* The operation whose dry-run a response records as failed: the loop ended at the
\* first operation the API server refused.
RECURSIVE FailedOperation(_, _)
FailedOperation(operations, response) ==
    IF response.failed = Nil \/ operations = <<>> THEN Nil
    ELSE IF DryRun(Head(operations)) = response.failed[1] THEN Ptr(Head(operations))
    ELSE FailedOperation(Tail(operations), response)

\* The error a handler returns from its authorization check, <<>> when it returns none.
\* kind: "DELETE" for ValidateDelete.
Rejection(kind, operations, response) ==
    LET failed == FailedOperation(operations, response)
    IN IF failed = Nil THEN Nil
       ELSE IF kind = "DELETE" THEN Ptr(DeleteRejection(failed[1]))
       ELSE Ptr(UpdateRejection(failed[1]))

\* The verdict of a handler that returned an error before the authorization check.
Invalid == AuthorizationResult(FALSE, EmptyMap, Nil)

ValidateCreate(req, obj, operations, nss, live) ==
    IF ~validateNewStructure(obj) THEN Invalid
    ELSE IF ~validateBusinessLogic(obj) THEN Invalid
    ELSE validateRBACAuthorizationUpdate(req, operations, nss, live)

ValidateUpdate(req, oldObj, newObj, operations, nss, live) ==
    IF ~validateNewStructure(newObj) THEN Invalid
    ELSE IF ~validateBusinessLogic(newObj) THEN Invalid
    ELSE validateRBACAuthorizationUpdate(req, operations, nss, live)

ValidateDelete(req, obj, operations, nss, live) ==
    validateRBACAuthorizationDelete(req, operations, nss, live)

(***************************************************************************)
(* The objects of the API server and the attribution of grants.            *)
(***************************************************************************)
ConditionTypeReady == "Ready"

ConditionTypeProcessingFailed == "ProcessingFailed"

FolderTreeStatus(conditions) == [conditions |-> conditions]

\* The FolderTree as stored: metadata.name, spec and status.
StoredFolderTree(name, spec, status) == [name |-> name, spec |-> spec, status |-> status]

\* Ghost.  Who introduced the content of a grant into the FolderTree ("" when the
\* request carried no identity) and whether a dry-run of theirs for it succeeded.
Attribution(by, proved) == [by |-> by, proved |-> proved]

Requester(req) == IF req = Nil THEN "" ELSE req[1].userInfo.username

\* The subresource a request addresses: "" for the FolderTree itself.
SubResource(req) == IF req = Nil THEN "" ELSE req[1].subResource

\* Ghost.  Two RoleBindings grant the same: same place, same role, same set of subjects.
SameGrant(a, b) ==
    /\ a.namespace = b.namespace
    /\ a.name = b.name
    /\ a.roleRef = b.roleRef
    /\ Range(a.subjects) = Range(b.subjects)

\* Ghost.  The attribution of the grants of newObj once a write by req is admitted: a
\* grant that oldObj already made keeps its attribution, any other is req's.
NextAuthor(oldAuthor, oldObj, newObj, req, response) ==
    LET builder == ControllerBuilder(newObj)
        oldDesired == IF oldObj = Nil THEN EmptyMap
                      ELSE CalculateDesiredRoleBindings(oldObj[1], builder)
        newDesired == CalculateDesiredRoleBindings(newObj, builder)
    IN [k \in DOMAIN newDesired |->
          IF /\ k \in DOMAIN oldDesired
             /\ k \in DOMAIN oldAuthor
             /\ SameGrant(oldDesired[k].roleBinding, newDesired[k].roleBinding)
          THEN oldAuthor[k]
          ELSE Attribution(Requester(req),
                           \E e \in DOMAIN response.attempted :
                               e.key = k /\ e.type \in {OperationCreate, OperationUpdate})]

\* What the webhook harness keeps of an admission: the request, the objects and the
\* outcome of the handler.
AdmissionResponse(operation, req, oldObj, obj, response) ==
    [operation |-> operation, request |-> req, oldObject |-> oldObj, object |-> obj,
     allowed |-> response.allowed, attempted |-> response.attempted,
     failed |-> response.failed]

(***************************************************************************)
(* The reconciler's state.  stale: the stored FolderTree was written since *)
(* the pass read it (its resourceVersion moved on); ownerGone: it was      *)
(* deleted since (the owner reference the builder sets now dangles);       *)
(* skipped (ghost): the keys whose create this pass has skipped.           *)
(***************************************************************************)
IdleReconciler ==
    [pc |-> "idle", folderTree |-> Nil, author |-> EmptyMap, pending |-> {}, cur |-> Nil,
     skipped |-> {}, stale |-> FALSE, ownerGone |-> FALSE]

\* A write to the stored FolderTree, seen from a pass in progress.
Touched(r, deleted) ==
    IF r.pc = "idle" THEN r
    ELSE [r EXCEPT !.stale = TRUE, !.ownerGone = @ \/ deleted]

\* The uniqueness harness before anything was handed to it.
ListAtRest ==
    /\ apiFolderTrees = [k \in {} |-> {}]
    /\ inFlight = {}

SystemAtRest ==
    /\ apiFolderTree = Nil
    /\ author = EmptyMap
    /\ apiRoleBindings = EmptyMap
    /\ provenance = EmptyMap
    /\ orphans = {}
    /\ missed = {}
    /\ rec = IdleReconciler
    /\ queued = FALSE
    /\ quiet = FALSE

(***************************************************************************)
(* Requests to the API server for the FolderTree, each passing the         *)
(* validating webhook before it is persisted.  observe: the webhook        *)
(* harness keeps the response.                                             *)
(***************************************************************************)
Observed(observe, response) == IF observe THEN Ptr(response) ELSE adm

CreateFolderTree(req, obj, observe) ==
    /\ ~quiet
    /\ apiFolderTree = Nil
    /\ SubResource(req) = ""
    /\ \E operations \in WebhookOperationSlices(Nil, obj) :
          LET response == ValidateCreate(req, obj, operations, apiNamespaces, apiRoleBindings)
          IN /\ IF response.allowed
                THEN /\ apiFolderTree' =
                            Ptr(StoredFolderTree(obj.name, obj.spec, FolderTreeStatus(<<>>)))
                     /\ author' = NextAuthor(author, Nil, obj, req, response)
                     /\ missed' = {}
                     /\ queued' = TRUE
                     /\ rec' = Touched(rec, FALSE)
                ELSE UNCHANGED <<apiFolderTree, author, missed, queued, rec>>
             /\ adm' = Observed(observe, AdmissionResponse("CREATE", req, Nil, obj, response))
    /\ UNCHANGED listVars
    /\ UNCHANGED <<apiNamespaces, apiRoleBindings, provenance, orphans, quiet, calcIn, calcOut, diffIn, diffOut>>

\* An update of the main resource: the spec is replaced, the status is kept.
UpdateFolderTree(req, obj, observe) ==
    /\ ~quiet
    /\ apiFolderTree # Nil
    /\ SubResource(req) = ""
    /\ obj.name = apiFolderTree[1].name
    /\ \E operations \in WebhookOperationSlices(apiFolderTree, obj) :
          LET response == ValidateUpdate(req, apiFolderTree[1], obj, operations,
                                         apiNamespaces, apiRoleBindings)
          IN /\ IF response.allowed /\ obj.spec # apiFolderTree[1].spec
                THEN /\ apiFolderTree' = Ptr([apiFolderTree[1] EXCEPT !.spec = obj.spec])
                     /\ author' = NextAuthor(author, apiFolderTree, obj, req, response)
                     /\ missed' = {}
                     /\ queued' = TRUE
                     /\ rec' = Touched(rec, FALSE)
                ELSE UNCHANGED <<apiFolderTree, author, missed, queued, rec>>
             /\ adm' = Observed(observe,
                                AdmissionResponse("UPDATE", req, apiFolderTree, obj, response))
    /\ UNCHANGED listVars
    /\ UNCHANGED <<apiNamespaces, apiRoleBindings, provenance, orphans, quiet, calcIn, calcOut, diffIn, diffOut>>

\* An update through the status subresource: the API server keeps the stored spec
\* whatever the request carries, and replaces the status.
UpdateFolderTreeStatus(req, conditions, observe) ==
    /\ ~quiet
    /\ apiFolderTree # Nil
    /\ SubResource(req) = "status"
    /\ LET obj == [apiFolderTree[1] EXCEPT !.status = FolderTreeStatus(conditions)] IN
       \E operations \in WebhookOperationSlices(apiFolderTree, obj) :
          LET response == ValidateUpdate(req, apiFolderTree[1], obj, operations,
                                         apiNamespaces, apiRoleBindings)
          IN /\ IF response.allowed /\ obj # apiFolderTree[1]
                THEN /\ apiFolderTree' = Ptr(obj)
                     /\ queued' = TRUE
                     /\ rec' = Touched(rec, FALSE)
                ELSE UNCHANGED <<apiFolderTree, queued, rec>>
             /\ adm' = Observed(observe,
                                AdmissionResponse("UPDATE", req, apiFolderTree, obj, response))
    /\ UNCHANGED listVars
    /\ UNCHANGED <<author, apiNamespaces, apiRoleBindings, provenance, orphans, missed,
                   quiet, calcIn, calcOut, diffIn, diffOut>>

\* The live RoleBindings that carry an owner reference to the FolderTree p1.
Owned(live) == { k \in DOMAIN live : live[k].owner = Ptr("p1") }

DeleteFolderTree(req, observe) ==
    /\ ~quiet
    /\ apiFolderTree # Nil
    /\ SubResource(req) = ""
    /\ \E operations \in DeleteOperationSlices(apiFolderTree[1]) :
          LET response == ValidateDelete(req, apiFolderTree[1], operations,
                                         apiNamespaces, apiRoleBindings)
          IN /\ IF response.allowed
                THEN /\ apiFolderTree' = Nil
                     /\ author' = EmptyMap
                     /\ orphans' = Owned(apiRoleBindings)
                     /\ missed' = {}
                     /\ queued' = TRUE
                     /\ rec' = Touched(rec, TRUE)
                ELSE UNCHANGED <<apiFolderTree, author, orphans, missed, queued, rec>>
             /\ adm' = Observed(observe,
                                AdmissionResponse("DELETE", req, apiFolderTree,
                                                  apiFolderTree[1], response))
    /\ UNCHANGED listVars
    /\ UNCHANGED <<apiNamespaces, apiRoleBindings, provenance, quiet, calcIn, calcOut, diffIn, diffOut>>

(***************************************************************************)
(* controller.FolderTreeReconciler.  One pass: Reconcile reads the         *)
(* FolderTree and lists the labelled RoleBindings (ReconcileAnalyze), then *)
(* processOperations executes the operations one by one, returning at the  *)
(* first error, and Reconcile writes the status.  A returned error makes   *)
(* controller-runtime queue the request again.  Every write to an owned    *)
(* RoleBinding and every accepted write to the FolderTree is an event that *)
(* queues a request as well (For, Owns).                                   *)
(***************************************************************************)
RECURSIVE removeCondition(_, _)
removeCondition(conditions, conditionType) ==
    IF conditions = <<>> THEN <<>>
    ELSE IF Head(conditions) = conditionType THEN Tail(conditions)
    ELSE <<Head(conditions)>> \o removeCondition(Tail(conditions), conditionType)

\* Mutant of StatusAfter: the condition of the other type is not removed.
StatusAfter_KeepOther(status, conditionType) ==
    FolderTreeStatus(IF conditionType \in Range(status.conditions) THEN status.conditions
                     ELSE Append(status.conditions, conditionType))

\* The conditions updateStatus leaves in the object it holds.
StatusAfter(status, conditionType) ==
    LET cleared == IF conditionType = ConditionTypeReady
                   THEN removeCondition(status.conditions, ConditionTypeProcessingFailed)
                   ELSE removeCondition(status.conditions, ConditionTypeReady)
    IN FolderTreeStatus(IF conditionType \in Range(cleared) THEN cleared
                        ELSE Append(cleared, conditionType))

\* The stored FolderTree after updateStatus: the write is refused, and the refusal
\* ignored, when the object was written or deleted since the pass read it.
updateStatus(stored, snapshot, stale, conditionType) ==
    IF stale \/ stored = Nil THEN stored
    ELSE Ptr([stored[1] EXCEPT !.status = StatusAfter(snapshot[1].status, conditionType)])

\* The operations the loop of processOperations may meet next.
NextOperations(pending) ==
    IF \E o \in pending : o.type # OperationDelete
    THEN { o \in pending : o.type # OperationDelete }
    ELSE pending

Restrict(m, keys) == [k \in keys |-> m[k]]

\* Get: NotFound.  Reconcile returns without doing anything.
ReconcileNotFound ==
    /\ queued
    /\ rec.pc = "idle"
    /\ apiFolderTree = Nil
    /\ queued' = FALSE
    /\ UNCHANGED listVars
    /\ UNCHANGED <<apiFolderTree, author, apiNamespaces, apiRoleBindings, provenance,
                   orphans, missed, rec, quiet, adm, calcIn, calcOut, diffIn, diffOut>>

\* Get, then AnalyzeDiff: List by label, calculate, compare.
ReconcileAnalyze ==
    /\ queued
    /\ rec.pc = "idle"
    /\ apiFolderTree # Nil
    /\ queued' = FALSE
    /\ rec' = [pc         |-> "exec",
               folderTree |-> apiFolderTree,
               author     |-> author,
               pending    |-> AnalyzeDiff(apiRoleBindings, apiFolderTree[1],
                                          ControllerBuilder(apiFolderTree[1])),
               cur        |-> Nil,
               skipped    |-> {},
               stale      |-> FALSE,
               ownerGone  |-> FALSE]
    /\ UNCHANGED listVars
    /\ UNCHANGED <<apiFolderTree, author, apiNamespaces, apiRoleBindings, provenance,
                   orphans, missed, quiet, adm, calcIn, calcOut, diffIn, diffOut>>

\* Get, then AnalyzeDiff fails on List: ProcessingFailed, and the error is returned.
ReconcileListFails ==
    /\ ~quiet
    /\ queued
    /\ rec.pc = "idle"
    /\ apiFolderTree # Nil
    /\ apiFolderTree' = updateStatus(apiFolderTree, apiFolderTree, FALSE,
                                     ConditionTypeProcessingFailed)
    /\ queued' = TRUE
    /\ UNCHANGED listVars
    /\ UNCHANGED <<author, apiNamespaces, apiRoleBindings, provenance, orphans, missed, rec,
                   quiet, adm, calcIn, calcOut, diffIn, diffOut>>

\* Mutant of NamespaceLookup: a missing namespace is not looked for.
NamespaceLookup_Always(operation, nss) == "found"

\* r.Get of the namespace in executeCreateOperation.
NamespaceLookup(operation, nss) ==
    IF operation.namespace \in nss THEN "found" ELSE "notfound"

\* executeCreateOperation, namespace not found: return nil.  The loop goes on.
ExecuteCreateSkip(operation) ==
    /\ rec.pc = "exec"
    /\ operation \in NextOperations(rec.pending)
    /\ operation.type = OperationCreate
    /\ NamespaceLookup(operation, apiNamespaces) = "notfound"
    /\ rec' = [rec EXCEPT !.pending = @ \ {operation},
                           !.skipped = @ \cup {OperationKey(operation)}]
    /\ missed' = missed \cup {OperationKey(operation)}
    /\ UNCHANGED listVars
    /\ UNCHANGED <<apiFolderTree, author, apiNamespaces, apiRoleBindings, provenance,
                   orphans, queued, quiet, adm, calcIn, calcOut, diffIn, diffOut>>

\* executeCreateOperation, namespace found: r.Create comes next.
ExecuteCreateLookup(operation) ==
    /\ rec.pc = "exec"
    /\ operation \in NextOperations(rec.pending)
    /\ operation.type = OperationCreate
    /\ NamespaceLookup(operation, apiNamespaces) = "found"
    /\ rec' = [rec EXCEPT !.pc = "creating", !.cur = Ptr(operation)]
    /\ UNCHANGED listVars
    /\ UNCHANGED <<apiFolderTree, author, apiNamespaces, apiRoleBindings, provenance,
                   orphans, missed, queued, quiet, adm, calcIn, calcOut, diffIn, diffOut>>

\* The backend accepts a create: the namespace exists and the name is free.
CreateAccepted(operation, nss, live) ==
    /\ operation.namespace \in nss
    /\ OperationKey(operation) \notin DOMAIN live

\* r.Create succeeds.
ExecuteCreateCall ==
    /\ rec.pc = "creating"
    /\ LET operation == rec.cur[1]
           key == OperationKey(operation)
       IN /\ CreateAccepted(operation, apiNamespaces, apiRoleBindings)
          /\ apiRoleBindings' = Put(apiRoleBindings, key, operation.desiredRoleBinding[1])
          /\ provenance' = Put(provenance, key, rec.author[key])
          /\ orphans' = IF rec.ownerGone THEN orphans \cup {key} ELSE orphans
          /\ rec' = [rec EXCEPT !.pc = "exec", !.cur = Nil, !.pending = @ \ {operation}]
    /\ queued' = TRUE
    /\ UNCHANGED listVars
    /\ UNCHANGED <<apiFolderTree, author, apiNamespaces, missed, quiet, adm, calcIn, calcOut, diffIn, diffOut>>

\* The backend accepts the update of the object the pass listed: it still exists and
\* was not written since, and the update leaves its roleRef alone (the roleRef of a
\* RoleBinding is immutable: the API server refuses an update that changes it).
UpdateAccepted(operation, live) ==
    /\ OperationKey(operation) \in DOMAIN live
    /\ live[OperationKey(operation)] = operation.existingRoleBinding[1]
    /\ operation.desiredRoleBinding[1].roleRef = operation.existingRoleBinding[1].roleRef

\* executeUpdateOperation: subjects, roleRef and labels of the listed object are
\* replaced, the rest of it is kept.
ExecuteUpdate(operation) ==
    /\ rec.pc = "exec"
    /\ operation \in NextOperations(rec.pending)
    /\ operation.type = OperationUpdate
    /\ UpdateAccepted(operation, apiRoleBindings)
    /\ LET key == OperationKey(operation)
           desired == operation.desiredRoleBinding[1]
       IN /\ apiRoleBindings' =
                [apiRoleBindings EXCEPT
                    ![key] = [operation.existingRoleBinding[1] EXCEPT
                                 !.subjects = desired.subjects,
                                 !.roleRef = desired.roleRef,
                                 !.labels = desired.labels]]
          /\ provenance' = Put(provenance, key, rec.author[key])
    /\ rec' = [rec EXCEPT !.pending = @ \ {operation}]
    /\ queued' = TRUE
    /\ UNCHANGED listVars
    /\ UNCHANGED <<apiFolderTree, author, apiNamespaces, orphans, missed, quiet, adm,
                   calcIn, calcOut, diffIn, diffOut>>

\* executeDeleteOperation: r.Delete succeeds when the object exists.
ExecuteDelete(operation) ==
    /\ rec.pc = "exec"
    /\ operation \in NextOperations(rec.pending)
    /\ operation.type = OperationDelete
    /\ OperationKey(operation) \in DOMAIN apiRoleBindings
    /\ LET keep == DOMAIN apiRoleBindings \ {OperationKey(operation)} IN
       /\ apiRoleBindings' = Restrict(apiRoleBindings, keep)
       /\ provenance' = Restrict(provenance, DOMAIN provenance \cap keep)
       /\ orphans' = orphans \cap keep
    /\ rec' = [rec EXCEPT !.pending = @ \ {operation}]
    /\ queued' = TRUE
    /\ UNCHANGED listVars
    /\ UNCHANGED <<apiFolderTree, author, apiNamespaces, missed, quiet, adm, calcIn, calcOut, diffIn, diffOut>>

\* The call the pass is about to make returns an error: one the backend must give
\* (the object or the namespace is gone, the object was written, the name is taken)
\* or, while the environment is not quiet, a transient one.
CallFails ==
    \/ ~quiet
    \/ /\ rec.pc = "creating"
       /\ ~CreateAccepted(rec.cur[1], apiNamespaces, apiRoleBindings)
    \/ /\ rec.pc = "exec"
       /\ \E operation \in NextOperations(rec.pending) :
             \/ operation.type = OperationUpdate /\ ~UpdateAccepted(operation, apiRoleBindings)
             \/ /\ operation.type = OperationDelete
                /\ OperationKey(operation) \notin DOMAIN apiRoleBindings

\* Mutant of ReconcileFails: the loop of processOperations logs the error and goes on
\* with the next operation.
ReconcileFails_GoesOn ==
    /\ rec.pc \in {"exec", "creating"}
    /\ rec.pc = "exec" => rec.pending # {}
    /\ CallFails
    /\ \E operation \in rec.pending :
          /\ IF rec.pc = "creating" THEN operation = rec.cur[1]
             ELSE operation \in NextOperations(rec.pending)
          /\ rec' = [rec EXCEPT !.pc = "exec", !.cur = Nil, !.pending = @ \ {operation}]
    /\ UNCHANGED listVars
    /\ UNCHANGED <<apiFolderTree, author, apiNamespaces, apiRoleBindings, provenance, orphans,
                   missed, queued, quiet, adm, calcIn, calcOut, diffIn, diffOut>>

\* processOperations returns the error: ProcessingFailed, and the request is queued
\* again.
ReconcileFails ==
    /\ rec.pc \in {"exec", "creating"}
    /\ rec.pc = "exec" => rec.pending # {}
    /\ CallFails
    /\ apiFolderTree' = updateStatus(apiFolderTree, rec.folderTree, rec.stale,
                                     ConditionTypeProcessingFailed)
    /\ rec' = IdleReconciler
    /\ queued' = TRUE
    /\ UNCHANGED listVars
    /\ UNCHANGED <<author, apiNamespaces, apiRoleBindings, provenance, orphans, missed, quiet,
                   adm, calcIn, calcOut, diffIn, diffOut>>

\* Every operation returned nil: Ready.  The status write is an event of its own
\* when the stored object changes by it; the condition carries the time of the
\* write, so writing the same condition again changes the object unless the time
\* (sameTime) is that of the stored condition.
ReconcileSucceeds(sameTime) ==
    /\ rec.pc = "exec"
    /\ rec.pending = {}
    /\ apiFolderTree' = updateStatus(apiFolderTree, rec.folderTree, rec.stale,
                                     ConditionTypeReady)
    /\ rec' = IdleReconciler
    /\ queued' = (queued \/ apiFolderTree' # apiFolderTree
                         \/ (~rec.stale /\ apiFolderTree # Nil /\ ~sameTime))
    /\ UNCHANGED listVars
    /\ UNCHANGED <<author, apiNamespaces, apiRoleBindings, provenance, orphans, missed, quiet,
                   adm, calcIn, calcOut, diffIn, diffOut>>

(***************************************************************************)
(* The environment: namespaces come and go, a RoleBinding is deleted by    *)
(* someone else, the garbage collector deletes a RoleBinding whose owner   *)
(* is gone.                                                                *)
(***************************************************************************)
\* Mutant of NamespaceEventRequests: the namespace watch maps an event to no request.
NamespaceEventRequests_None(stored) == FALSE

\* The Watches handler of SetupWithManager: one request per FolderTree in the list.
\* The list is read from the manager's cache and is taken not to fail.
NamespaceEventRequests(stored) == stored # Nil

CreateNamespace(ns) ==
    /\ ~quiet
    /\ ns \notin apiNamespaces
    /\ apiNamespaces' = apiNamespaces \cup {ns}
    /\ queued' = (queued \/ NamespaceEventRequests(apiFolderTree))
    /\ UNCHANGED listVars
    /\ UNCHANGED <<apiFolderTree, author, apiRoleBindings, provenance, orphans, missed, rec,
                   quiet, adm, calcIn, calcOut, diffIn, diffOut>>

\* The namespace goes, and with it the RoleBindings in it.
DeleteNamespace(ns) ==
    /\ ~quiet
    /\ ns \in apiNamespaces
    /\ apiNamespaces' = apiNamespaces \ {ns}
    /\ LET keep == { k \in DOMAIN apiRoleBindings : apiRoleBindings[k].namespace # ns } IN
       /\ apiRoleBindings' = Restrict(apiRoleBindings, keep)
       /\ provenance' = Restrict(provenance, DOMAIN provenance \cap keep)
       /\ orphans' = orphans \cap keep
       /\ queued' = (\/ queued
                     \/ NamespaceEventRequests(apiFolderTree)
                     \/ Owned(apiRoleBindings) \ keep # {})
    /\ UNCHANGED listVars
    /\ UNCHANGED <<apiFolderTree, author, rec, missed, quiet, adm, calcIn, calcOut, diffIn, diffOut>>

\* The removal of one live RoleBinding, by a user or by the garbage collector.
RemoveRoleBinding(key) ==
    LET keep == DOMAIN apiRoleBindings \ {key} IN
    /\ apiRoleBindings' = Restrict(apiRoleBindings, keep)
    /\ provenance' = Restrict(provenance, DOMAIN provenance \cap keep)
    /\ orphans' = orphans \cap keep
    /\ queued' = (queued \/ key \in Owned(apiRoleBindings))
    /\ UNCHANGED listVars
    /\ UNCHANGED <<apiFolderTree, author, apiNamespaces, rec, missed, quiet, adm, calcIn,
                   calcOut, diffIn, diffOut>>

DeleteRoleBinding(key) ==
    /\ ~quiet
    /\ key \in DOMAIN apiRoleBindings
    /\ RemoveRoleBinding(key)

GarbageCollect(key) ==
    /\ key \in orphans
    /\ RemoveRoleBinding(key)

\* From here on the environment does not act and backend calls succeed.
Quiesce ==
    /\ ~quiet
    /\ quiet' = TRUE
    /\ UNCHANGED listVars
    /\ UNCHANGED <<apiFolderTree, author, apiNamespaces, apiRoleBindings, provenance,
                   orphans, missed, rec, queued, adm, calcIn, calcOut, diffIn, diffOut>>

(***************************************************************************)
(* Calculator harness: a bounded family of FolderTrees.  Folder names and  *)
(* namespaces are unique and template names are unique within a folder;    *)
(* a tree node may have no folder entry, a folder may be outside the tree, *)
(* and folders of one chain may define templates of the same name.  The    *)
(* subject of a template names the folder that defines it, so templates of *)
(* different folders are different values.                                 *)
(***************************************************************************)
TreeName == "p1"

NodeNames == <<"a", "b", "c">>

TreeShapes ==
    { Nil,
      Ptr(TreeNode("a", <<>>)),
      Ptr(TreeNode("a", <<TreeNode("b", <<>>)>>)),
      Ptr(TreeNode("a", <<TreeNode("b", <<>>), TreeNode("c", <<>>)>>)),
      Ptr(TreeNode("a", <<TreeNode("b", <<TreeNode("c", <<>>)>>)>>)) }

TemplateOf(name, folderName, propagate) ==
    RoleBindingTemplate(name, <<Subject(folderName)>>, RoleRef(name), propagate)

TemplateOptions(n) ==
    { <<>>,
      <<TemplateOf("admin", n, Ptr(TRUE))>>,
      <<TemplateOf("admin", n, Nil)>>,
      <<TemplateOf("admin", n, Ptr(FALSE))>>,
      <<TemplateOf("view", n, Ptr(TRUE))>>,
      <<TemplateOf("admin", n, Ptr(TRUE)), TemplateOf("view", n, Nil)>> }

NamespaceOptions(n) == { <<>>, <<"ns-" \o n>>, <<"ns-" \o n, "ns2-" \o n>> }

\* Nil: the name has no entry in spec.folders.
FolderOptions(n) ==
    {Nil} \cup { Ptr(Folder(n, ts, nss)) : ts \in TemplateOptions(n), nss \in NamespaceOptions(n) }

CalcInputs ==
    { FolderTree(TreeName, FolderTreeSpec(tree, fa \o fb \o fc)) :
        tree \in TreeShapes,
        fa \in FolderOptions(NodeNames[1]),
        fb \in FolderOptions(NodeNames[2]),
        fc \in FolderOptions(NodeNames[3]) }

\* The diff harness before anything was handed to it.
DiffAtRest ==
    /\ diffIn = Nil
    /\ diffOut = Nil

InitCalc ==
    /\ ListAtRest
    /\ SystemAtRest
    /\ apiNamespaces = {}
    /\ adm = Nil
    /\ calcIn \in CalcInputs
    /\ calcOut = Nil
    /\ DiffAtRest

\* One call of the calculator, as DiffAnalyzer.collectDesiredRoleBindings makes it.
Calculate ==
    /\ calcOut = Nil
    /\ calcOut' = Ptr(CalculateDesiredRoleBindings(calcIn, ControllerBuilder(calcIn)))
    /\ UNCHANGED listVars
    /\ UNCHANGED <<sysVars, adm, calcIn, diffIn, diffOut>>

NextCalc == Calculate

SpecCalc == InitCalc /\ [][NextCalc]_vars

(***************************************************************************)
(* The system: one FolderTree "p1", written by three kinds of requests,    *)
(* reconciled by the controller, over two namespaces.                      *)
(***************************************************************************)
SubjectX == Subject("x")

SubjectY == Subject("y")

\* A folder outside any tree: template "editor" on ns1.
EditorPolicy(subjects) ==
    FolderTree(TreeName,
        FolderTreeSpec(Nil,
            <<Folder("team", <<RoleBindingTemplate("editor", subjects, RoleRef("edit"), Nil)>>,
                     <<"ns1">>)>>))

PolicyDup == EditorPolicy(<<SubjectX, SubjectX>>)

PolicyChanged == EditorPolicy(<<SubjectX, SubjectY>>)

\* A root without namespaces whose template "admin" propagates to the namespaces of
\* the folders below it.
PropagatingPolicy(children) ==
    FolderTree(TreeName,
        FolderTreeSpec(
            Ptr(TreeNode("root", [i \in DOMAIN children |-> TreeNode(children[i].name, <<>>)])),
            <<Folder("root",
                     <<RoleBindingTemplate("admin", <<SubjectX>>, RoleRef("admin"), Ptr(TRUE))>>,
                     <<>>)>> \o children))

PolicyTree == PropagatingPolicy(<<Folder("team", <<>>, <<"ns1", "ns2">>)>>)

SysPolicies == {PolicyDup, PolicyChanged, PolicyTree}

SysRequests == {AdmissionRequest("alice", ""), AdmissionRequest("bob", "")}

SysNamespaces == {"ns1", "ns2"}

\* The keys a RoleBinding of the system may have.
SysKeys ==
    UNION { DOMAIN CalculateDesiredRoleBindings(p, ControllerBuilder(p)) : p \in SysPolicies }

CalcAtRest ==
    /\ calcIn = FolderTree(TreeName, FolderTreeSpec(Nil, <<>>))
    /\ calcOut = Nil

Init ==
    /\ ListAtRest
    /\ SystemAtRest
    /\ apiNamespaces = SysNamespaces
    /\ adm = Nil
    /\ CalcAtRest
    /\ DiffAtRest

Admission ==
    \/ \E req \in SysRequests, obj \in SysPolicies : CreateFolderTree(req, obj, FALSE)
    \/ \E req \in SysRequests, obj \in SysPolicies : UpdateFolderTree(req, obj, FALSE)
    \/ \E req \in SysRequests : DeleteFolderTree(req, FALSE)

Execute ==
    \/ \E operation \in rec.pending : ExecuteCreateSkip(operation)
    \/ \E operation \in rec.pending : ExecuteCreateLookup(operation)
    \/ \E operation \in rec.pending : ExecuteUpdate(operation)
    \/ \E operation \in rec.pending : ExecuteDelete(operation)

Reconciler ==
    \/ ReconcileNotFound
    \/ ReconcileAnalyze
    \/ ReconcileListFails
    \/ Execute
    \/ ExecuteCreateCall
    \/ ReconcileFails
    \/ \E sameTime \in BOOLEAN : ReconcileSucceeds(sameTime)

Environment ==
    \/ \E ns \in SysNamespaces : CreateNamespace(ns)
    \/ \E ns \in SysNamespaces : DeleteNamespace(ns)
    \/ \E key \in SysKeys : DeleteRoleBinding(key)
    \/ Quiesce

Collector == \E key \in SysKeys : GarbageCollect(key)

Next == Admission \/ Reconciler \/ Environment \/ Collector

Spec == Init /\ [][Next]_vars

\* The work queue hands a queued request to the reconciler, a pass in progress goes
\* on, and the garbage collector gets to every dangling RoleBinding.
FairSpec == Spec /\ WF_vars(Reconciler) /\ WF_vars(Collector)

(***************************************************************************)
(* Webhook harness: admission requests against a backend that stands       *)
(* still, as it does for the duration of a request and for as long as the  *)
(* reconciler has not got to the FolderTree.  The response of the last     *)
(* request is kept in adm.                                                 *)
(***************************************************************************)
\* Scenario C: the root's propagating template over three folders with one namespace
\* each, the root owning none.
ScenarioC ==
    PropagatingPolicy(<<Folder("a", <<>>, <<"ns1">>), Folder("b", <<>>, <<"ns2">>),
                        Folder("c", <<>>, <<"ns3">>)>>)

\* A folder below the root defines a template named like the root's: refused by
\* validateInheritanceConflicts.
PolicyConflict ==
    PropagatingPolicy(
        <<Folder("team", <<RoleBindingTemplate("admin", <<SubjectY>>, RoleRef("view"), Nil)>>,
                 <<"ns1">>)>>)

WebhookPolicies == {PolicyDup, PolicyChanged, ScenarioC, PolicyConflict}

WebhookNamespaces == {"ns1", "ns2", "ns3"}

WebhookUsers == {"alice", "bob", SystemAdmin, ControllerIdentity}

\* <<>>: the context carries no admission request.
WebhookRequests == {Nil} \cup { AdmissionRequest(username, "") : username \in WebhookUsers }

WebhookStatusRequests == { AdmissionRequest(username, "status") : username \in WebhookUsers }

WebhookConditions == {<<ConditionTypeReady>>, <<ConditionTypeProcessingFailed>>}

\* What the reconciler calculates for a FolderTree.
Desired(ft) == CalculateDesiredRoleBindings(ft, ControllerBuilder(ft))

\* The RoleBindings of a FolderTree as the reconciler creates them.
Reconciled(ft, keys) == [k \in keys |-> Desired(ft)[k].roleBinding]

\* The backend before the first request: no FolderTree and no RoleBinding, or a
\* FolderTree the webhook has admitted for which the reconciler has created the
\* RoleBindings of the existing namespaces, or none of them yet.
InitWebhook ==
    /\ ListAtRest
    /\ apiNamespaces \in {WebhookNamespaces, WebhookNamespaces \ {"ns1"}}
    /\ \/ /\ apiFolderTree = Nil
          /\ author = EmptyMap
          /\ apiRoleBindings = EmptyMap
       \/ \E ft \in WebhookPolicies :
             /\ validateNewStructure(ft)
             /\ validateBusinessLogic(ft)
             /\ apiFolderTree = Ptr(StoredFolderTree(ft.name, ft.spec, FolderTreeStatus(<<>>)))
             /\ author = [k \in DOMAIN Desired(ft) |-> Attribution("", FALSE)]
             /\ \E keys \in { {}, { k \in DOMAIN Desired(ft) :
                                      Desired(ft)[k].namespace \in apiNamespaces } } :
                   apiRoleBindings = Reconciled(ft, keys)
    /\ provenance = [k \in DOMAIN apiRoleBindings |-> Attribution("", FALSE)]
    /\ orphans = {}
    /\ missed = {}
    /\ rec = IdleReconciler
    /\ queued = FALSE
    /\ quiet = FALSE
    /\ adm = Nil
    /\ CalcAtRest
    /\ DiffAtRest

NextWebhook ==
    \/ \E req \in WebhookRequests, obj \in WebhookPolicies : CreateFolderTree(req, obj, TRUE)
    \/ \E req \in WebhookRequests, obj \in WebhookPolicies : UpdateFolderTree(req, obj, TRUE)
    \/ \E req \in WebhookStatusRequests, conditions \in WebhookConditions :
          UpdateFolderTreeStatus(req, conditions, TRUE)
    \/ \E req \in WebhookRequests : DeleteFolderTree(req, TRUE)

SpecWebhook == InitWebhook /\ [][NextWebhook]_vars

(***************************************************************************)
(* Handler harness: the three handlers called one at a time.               *)
(* ValidateCreate is called when no FolderTree is stored, ValidateUpdate   *)
(* with the stored FolderTree as the old object and any FolderTree of that *)
(* name as the new one, for the main resource or the status subresource,   *)
(* and ValidateDelete with the stored FolderTree.  The FolderTree is not   *)
(* persisted and the response is kept in adm; the RoleBindings are what    *)
(* the API server holds once it has answered the handler's calls.  The     *)
(* live RoleBindings may lag behind the stored FolderTree: they are those  *)
(* the reconciler made for some version of it, or none.                    *)
(***************************************************************************)
\* Template "editor" on ns1, and beside it a folder that assigns ns3 and has no
\* template of its own: no RoleBinding is desired in ns3.
PolicySpare ==
    FolderTree(TreeName,
        FolderTreeSpec(Nil,
            <<Folder("team", <<RoleBindingTemplate("editor", <<SubjectX, SubjectY>>, RoleRef("edit"), Nil)>>,
                     <<"ns1">>),
              Folder("spare", <<>>, <<"ns3">>)>>))

\* The FolderTrees submitted to the handlers.
HandlerPolicies == WebhookPolicies \cup {PolicySpare}

InitHandler ==
    /\ ListAtRest
    /\ apiNamespaces \in {WebhookNamespaces, WebhookNamespaces \ {"ns1"}, WebhookNamespaces \ {"ns3"}}
    /\ \/ /\ apiFolderTree = Nil
          /\ author = EmptyMap
       \/ \E ft \in WebhookPolicies :
             /\ validateNewStructure(ft)
             /\ validateBusinessLogic(ft)
             /\ apiFolderTree = Ptr(StoredFolderTree(ft.name, ft.spec, FolderTreeStatus(<<>>)))
             /\ author = [k \in DOMAIN Desired(ft) |-> Attribution("", FALSE)]
    /\ \E earlier \in WebhookPolicies :
          /\ validateNewStructure(earlier)
          /\ validateBusinessLogic(earlier)
          /\ \E keys \in { {}, { k \in DOMAIN Desired(earlier) :
                                   Desired(earlier)[k].namespace \in apiNamespaces } } :
                apiRoleBindings = Reconciled(earlier, keys)
    /\ provenance = [k \in DOMAIN apiRoleBindings |-> Attribution("", FALSE)]
    /\ orphans = {}
    /\ missed = {}
    /\ rec = IdleReconciler
    /\ queued = FALSE
    /\ quiet = FALSE
    /\ adm = Nil
    /\ CalcAtRest
    /\ DiffAtRest

\* What a handler leaves of the harness: in adm the response, the operation whose
\* dry-run failed and the error returned for it; and the RoleBindings the API server
\* holds after the handler's calls.
Handled(kind, req, oldObj, obj, operations, response) ==
    /\ adm' = Ptr(AdmissionResponse(kind, req, oldObj, obj, response)
                    @@ ("failedOperation" :> FailedOperation(operations, response))
                    @@ ("message" :> Rejection(kind, operations, response)))
    /\ \E now \in UnixNanoReadings :
          apiRoleBindings' = AfterDryRuns(operations, response, apiRoleBindings, now)
    /\ UNCHANGED listVars
    /\ UNCHANGED <<apiFolderTree, author, apiNamespaces, provenance, orphans, missed, rec,
                   queued, quiet, calcIn, calcOut, diffIn, diffOut>>

HandleCreate(req, obj) ==
    /\ apiFolderTree = Nil
    /\ \E operations \in WebhookOperationSlices(Nil, obj) :
          Handled("CREATE", req, Nil, obj, operations,
                  ValidateCreate(req, obj, operations, apiNamespaces, apiRoleBindings))

HandleUpdate(req, obj) ==
    /\ apiFolderTree # Nil
    /\ obj.name = apiFolderTree[1].name
    /\ \E operations \in WebhookOperationSlices(apiFolderTree, obj) :
          Handled("UPDATE", req, apiFolderTree, obj, operations,
                  ValidateUpdate(req, apiFolderTree[1], obj, operations,
                                 apiNamespaces, apiRoleBindings))

HandleDelete(req) ==
    /\ apiFolderTree # Nil
    /\ \E operations \in DeleteOperationSlices(apiFolderTree[1]) :
          Handled("DELETE", req, apiFolderTree, apiFolderTree[1], operations,
                  ValidateDelete(req, apiFolderTree[1], operations,
                                 apiNamespaces, apiRoleBindings))

\* The requests of the webhook harness and those of the controller as deployed.
HandlerRequests == WebhookRequests \cup {AdmissionRequest(ServiceAccountIdentity, "")}

NextHandler ==
    \/ \E req \in HandlerRequests, obj \in HandlerPolicies : HandleCreate(req, obj)
    \/ \E req \in HandlerRequests \cup WebhookStatusRequests, obj \in HandlerPolicies :
          HandleUpdate(req, obj)
    \/ \E req \in HandlerRequests : HandleDelete(req)

SpecHandler == InitHandler /\ [][NextHandler]_vars

(***************************************************************************)
(* Reconciler harness: the controller alone, passing again and again over  *)
(* one stored FolderTree (template "editor" on ns1 and ns2) and whatever   *)
(* RoleBindings it finds.  What is live at the start was written by others *)
(* or by an earlier controller: under a desired key a RoleBinding may be   *)
(* missing or differ from the desired one in any field, a RoleBinding of   *)
(* the tree may be left from a template that is gone, and one of another   *)
(* tree may sit beside them.  Backend calls may fail at any time.          *)
(***************************************************************************)
PassPolicy ==
    FolderTree(TreeName,
        FolderTreeSpec(Nil,
            <<Folder("team",
                     <<RoleBindingTemplate("editor", <<SubjectX, SubjectY>>, RoleRef("edit"), Nil)>>,
                     <<"ns1", "ns2">>)>>))

PassNamespaces == {"ns1", "ns2"}

TemplateLabel == "foldertree.rbac.kubevirt.io/role-binding-template"

\* What may be live in place of the RoleBinding rb: rb with other subjects (reordered,
\* repeated, fewer), another roleRef, another or one more label, an annotation, no owner.
LiveVariants(rb) ==
    { [rb EXCEPT !.subjects = subjects, !.roleRef = roleRef, !.labels = labels,
                 !.annotations = annotations, !.owner = owner] :
        subjects \in {rb.subjects, <<SubjectY, SubjectX>>, <<SubjectX, SubjectX>>, <<SubjectX>>},
        roleRef \in {rb.roleRef, RoleRef("view")},
        labels \in {rb.labels, [rb.labels EXCEPT ![TemplateLabel] = "reader"],
                    Put(rb.labels, "team", "blue")},
        annotations \in {EmptyMap, Put(EmptyMap, "note", "kept")},
        owner \in {rb.owner, Nil} }

\* A RoleBinding of the tree left from a template "old" the FolderTree no longer has.
LeftOver(ft) == BuildRoleBindingFromTemplate(ControllerBuilder(ft), "ns1", [EmptyTemplate EXCEPT !.name = "old"])

\* A RoleBinding of another tree, and one without the labels of any tree.
Foreign == BuildRoleBindingFromTemplate(RoleBindingBuilder("p2", TRUE), "ns1", [EmptyTemplate EXCEPT !.name = "editor"])

Unlabelled(rb) == [rb EXCEPT !.labels = EmptyMap, !.owner = Nil]

RoleBindingKey(rb) == DesiredKey(rb.namespace, rb.name)

\* The live states of the harness: per desired key of ns1 nothing or a variant, per
\* desired key of ns2 nothing, the desired RoleBinding, one with fewer subjects or an
\* unlabelled one; with or without the left-over and the foreign RoleBinding.
LiveStates(ft, nss) ==
    LET desired == Desired(ft)
        choices(k) ==
            IF desired[k].namespace \notin nss THEN {Nil}
            ELSE IF desired[k].namespace = "ns1"
            THEN {Nil} \cup { Ptr(v) : v \in LiveVariants(desired[k].roleBinding) }
            ELSE {Nil, Ptr(desired[k].roleBinding),
                  Ptr([desired[k].roleBinding EXCEPT !.subjects = <<SubjectX>>]),
                  Ptr(Unlabelled(desired[k].roleBinding))}
        others == { rbs \in SUBSET {LeftOver(ft), Foreign} :
                        \A rb \in rbs : rb.namespace \in nss }
    IN { [k \in { d \in DOMAIN desired : pick[d] # Nil }
                \cup { RoleBindingKey(rb) : rb \in rbs } |->
            IF k \in DOMAIN desired THEN pick[k][1]
            ELSE CHOOSE rb \in rbs : RoleBindingKey(rb) = k] :
         pick \in { f \in [DOMAIN desired -> UNION { choices(k) : k \in DOMAIN desired }] :
                      \A k \in DOMAIN desired : f[k] \in choices(k) },
         rbs \in others }

InitPass ==
    /\ ListAtRest
    /\ apiNamespaces \in {PassNamespaces, {"ns1"}}
    /\ apiFolderTree = Ptr(StoredFolderTree(PassPolicy.name, PassPolicy.spec, FolderTreeStatus(<<>>)))
    /\ author = [k \in DOMAIN Desired(PassPolicy) |-> Attribution("", FALSE)]
    /\ apiRoleBindings \in LiveStates(PassPolicy, apiNamespaces)
    /\ provenance = EmptyMap
    /\ orphans = {}
    /\ missed = {}
    /\ rec = IdleReconciler
    /\ queued = TRUE
    /\ quiet = FALSE
    /\ adm = Nil
    /\ CalcAtRest
    /\ DiffAtRest

NextPass ==
    \/ ReconcileAnalyze
    \/ ReconcileListFails
    \/ Execute
    \/ ExecuteCreateCall
    \/ ReconcileFails
    \/ \E sameTime \in BOOLEAN : ReconcileSucceeds(sameTime)

SpecPass == InitPass /\ [][NextPass]_vars

(***************************************************************************)
(* Two-controller harness: the reconciler harness with the reconciler of   *)
(* another FolderTree, "p2", at work beside it.  That reconciler runs the  *)
(* same code for its own FolderTree: it lists by the label tree=p2,        *)
(* creates the RoleBinding it desires where the name is free, updates and  *)
(* deletes what it listed.  What it desires changes as p2 is rewritten.    *)
(***************************************************************************)
\* The RoleBinding p2 desires in ns1, now or after a rewrite of p2.
OtherDesired == {Foreign, [Foreign EXCEPT !.subjects = <<SubjectX>>]}

\* A create or an update by the pass of p2.
OtherWrite(roleBinding) ==
    LET key == RoleBindingKey(roleBinding) IN
    /\ roleBinding.namespace \in apiNamespaces
    /\ key \in DOMAIN apiRoleBindings => key \in DOMAIN getExistingRoleBindings(apiRoleBindings, "p2")
    /\ key \in DOMAIN apiRoleBindings => apiRoleBindings[key] # roleBinding
    /\ apiRoleBindings' = Put(apiRoleBindings, key, roleBinding)
    /\ UNCHANGED listVars
    /\ UNCHANGED <<apiFolderTree, author, apiNamespaces, provenance, orphans, missed, rec,
                   queued, quiet, adm, calcIn, calcOut, diffIn, diffOut>>

\* A delete by the pass of p2.
OtherDelete(key) ==
    /\ key \in DOMAIN getExistingRoleBindings(apiRoleBindings, "p2")
    /\ apiRoleBindings' = Restrict(apiRoleBindings, DOMAIN apiRoleBindings \ {key})
    /\ UNCHANGED listVars
    /\ UNCHANGED <<apiFolderTree, author, apiNamespaces, provenance, orphans, missed, rec,
                   queued, quiet, adm, calcIn, calcOut, diffIn, diffOut>>

OtherPass ==
    \/ \E roleBinding \in OtherDesired : OtherWrite(roleBinding)
    \/ \E key \in { RoleBindingKey(roleBinding) : roleBinding \in OtherDesired } : OtherDelete(key)

NextPair == NextPass \/ OtherPass

SpecPair == InitPass /\ [][NextPair]_vars

(***************************************************************************)
(* Cleanup harness: the reconciler harness together with the deletion of   *)
(* the FolderTree and the garbage collector of the backend, which removes  *)
(* a RoleBinding whose owner reference dangles.  With the reconciler's     *)
(* steps and the collector's both fair, every pass ends and every dangling *)
(* RoleBinding is collected; with the reconciler's alone fair, the         *)
(* collector may never get to act.                                         *)
(***************************************************************************)
CleanupKeys == UNION { DOMAIN live : live \in LiveStates(PassPolicy, PassNamespaces) }

Controller == ReconcileNotFound \/ NextPass

CleanupCollector == \E key \in CleanupKeys : GarbageCollect(key)

NextCleanup ==
    \/ DeleteFolderTree(AdmissionRequest("alice", ""), FALSE)
    \/ Controller
    \/ CleanupCollector

SpecCleanup == InitPass /\ [][NextCleanup]_vars

FairCleanup == SpecCleanup /\ WF_vars(Controller) /\ WF_vars(CleanupCollector)

FairController == SpecCleanup /\ WF_vars(Controller)

(***************************************************************************)
(* Drift harness: the controller and those who write RoleBindings beside   *)
(* it.  The FolderTree of the reconciler harness is stored and reconciled; *)
(* then a managed RoleBinding is deleted, or the one of ns1 is written     *)
(* with other subjects, another roleRef (the roleRef is immutable: the     *)
(* object is deleted and created anew with the metadata it had) or other   *)
(* tracking labels.  The watch set up by Owns() maps every event of a      *)
(* RoleBinding to a request for the FolderTree its owner reference names.  *)
(* Once the environment is quiet nobody but the controller writes and no   *)
(* call fails for a transient reason.                                      *)
(***************************************************************************)
DriftVariants(rb) ==
    { [rb EXCEPT !.subjects = subjects, !.roleRef = roleRef, !.labels = labels] :
        subjects \in {rb.subjects, <<SubjectY, SubjectX>>, <<SubjectX, SubjectX>>, <<SubjectX>>},
        roleRef \in {rb.roleRef, RoleRef("view")},
        labels \in {rb.labels, [rb.labels EXCEPT ![TemplateLabel] = "reader"],
                    [rb.labels EXCEPT ![TreeLabel] = "p2"]} }

InitDrift ==
    /\ ListAtRest
    /\ apiNamespaces = PassNamespaces
    /\ apiFolderTree = Ptr(StoredFolderTree(PassPolicy.name, PassPolicy.spec, FolderTreeStatus(<<>>)))
    /\ author = [k \in DOMAIN Desired(PassPolicy) |-> Attribution("", FALSE)]
    /\ apiRoleBindings = Reconciled(PassPolicy, DOMAIN Desired(PassPolicy))
    /\ provenance = EmptyMap
    /\ orphans = {}
    /\ missed = {}
    /\ rec = IdleReconciler
    /\ queued = FALSE
    /\ quiet = FALSE
    /\ adm = Nil
    /\ CalcAtRest
    /\ DiffAtRest

\* Someone other than the controller writes the RoleBinding of a key.
WriteRoleBinding(key, roleBinding) ==
    /\ ~quiet
    /\ key \in DOMAIN apiRoleBindings
    /\ roleBinding # apiRoleBindings[key]
    /\ apiRoleBindings' = [apiRoleBindings EXCEPT ![key] = roleBinding]
    /\ queued' = (queued \/ key \in Owned(apiRoleBindings))
    /\ UNCHANGED listVars
    /\ UNCHANGED <<apiFolderTree, author, apiNamespaces, provenance, orphans, missed, rec,
                   quiet, adm, calcIn, calcOut, diffIn, diffOut>>

Drift ==
    \/ \E key \in DOMAIN Desired(PassPolicy) : DeleteRoleBinding(key)
    \/ \E roleBinding \in DriftVariants(Desired(PassPolicy)["ns1/foldertree-p1-editor"].roleBinding) :
          WriteRoleBinding("ns1/foldertree-p1-editor", roleBinding)

\* The steps of the controller in this harness: no namespace goes and no RoleBinding
\* with the tracking label is added, so a pass has nothing to skip and nothing to
\* delete.
DriftPass ==
    \/ ReconcileAnalyze
    \/ ReconcileListFails
    \/ \E operation \in rec.pending : ExecuteCreateLookup(operation)
    \/ \E operation \in rec.pending : ExecuteUpdate(operation)
    \/ ExecuteCreateCall
    \/ ReconcileFails
    \/ \E sameTime \in BOOLEAN : ReconcileSucceeds(sameTime)

NextDrift ==
    \/ Drift
    \/ Quiesce
    \/ DriftPass

SpecDrift == InitDrift /\ [][NextDrift]_vars

\* The work queue hands a queued request to the reconciler and a pass goes on.
FairDrift == SpecDrift /\ WF_vars(DriftPass)

(***************************************************************************)
(* Diff harness: the two analyzers on the change from an old FolderTree to *)
(* a new one.  The spec diff is called as validateRBACAuthorizationUpdate  *)
(* calls it, with a builder that names the new FolderTree and has no       *)
(* scheme; the cluster diff is called as the reconciler calls it for the   *)
(* new FolderTree once it has created every RoleBinding of the old one.    *)
(* The inputs are the pairs of a family of one-folder FolderTrees that     *)
(* differ in name, template name, subjects, roleRef and namespaces, the    *)
(* creation of each of them, and every FolderTree of the calculator        *)
(* harness and of the webhook harness against itself.                      *)
(***************************************************************************)
DiffPolicy(name, templateName, subjects, roleRefName, namespaces) ==
    FolderTree(name,
        FolderTreeSpec(Nil,
            <<Folder("team",
                     <<RoleBindingTemplate(templateName, subjects, RoleRef(roleRefName), Nil)>>,
                     namespaces)>>))

DiffSubjects ==
    {<<SubjectX>>, <<SubjectY>>, <<SubjectX, SubjectY>>, <<SubjectY, SubjectX>>,
     <<SubjectX, SubjectX>>, <<SubjectX, SubjectY, SubjectX>>}

DiffPolicies ==
    { DiffPolicy(name, templateName, subjects, roleRefName, namespaces) :
        name \in {"p1", "p2"}, templateName \in {"editor", "viewer"},
        subjects \in DiffSubjects, roleRefName \in {"edit", "view"},
        namespaces \in {<<"ns1">>, <<"ns1", "ns2">>} }

DiffInputs ==
    { [old |-> Ptr(o), new |-> n] : o \in DiffPolicies, n \in DiffPolicies }
    \cup { [old |-> Nil, new |-> n] : n \in DiffPolicies }
    \cup { [old |-> Ptr(P), new |-> P] : P \in CalcInputs \cup WebhookPolicies }

InitDiff ==
    /\ ListAtRest
    /\ SystemAtRest
    /\ apiNamespaces = {}
    /\ adm = Nil
    /\ CalcAtRest
    /\ diffIn \in { Ptr(i) : i \in DiffInputs }
    /\ diffOut = Nil

\* The RoleBindings the reconciler has created for a FolderTree, none if there is none.
ReconciledAll(folderTree) ==
    IF folderTree = Nil THEN EmptyMap
    ELSE Reconciled(folderTree[1], DOMAIN Desired(folderTree[1]))

\* One call of each analyzer.
CompareFolderTrees ==
    /\ diffOut = Nil
    /\ LET old == diffIn[1].old
           new == diffIn[1].new
       IN diffOut' = Ptr([spec    |-> AnalyzeFolderTreeDiff(old, new,
                                                             RoleBindingBuilder(new.name, FALSE)),
                          cluster |-> AnalyzeDiff(ReconciledAll(old), new,
                                                  ControllerBuilder(new))])
    /\ UNCHANGED listVars
    /\ UNCHANGED <<sysVars, adm, calcIn, calcOut, diffIn>>

NextDiff == CompareFolderTrees

SpecDiff == InitDiff /\ [][NextDiff]_vars

(***************************************************************************)
(* Tree vocabulary used by the properties of the calculator.               *)
(***************************************************************************)
RECURSIVE NodesOf(_)
NodesOf(node) == {node} \cup UNION { NodesOf(node.subfolders[i]) : i \in DOMAIN node.subfolders }

NamesOf(node) == { n.name : n \in NodesOf(node) }

TreeNodesOf(folderTree) ==
    IF folderTree.spec.tree = Nil THEN {} ELSE NodesOf(folderTree.spec.tree[1])

FoldersOf(folderTree) == Range(folderTree.spec.folders)

\* The folders whose tree node lies strictly below the tree node f.
DescendantFolders(folderTree, f) ==
    { d \in FoldersOf(folderTree) : \E n \in NodesOf(f) \ {f} : n.name = d.name }

\* The calculated entries of one namespace.
EntriesIn(out, namespace) == { out[k] : k \in { x \in DOMAIN out : out[x].namespace = namespace } }

(***************************************************************************)
(* Properties of the inheritance calculator (checked under SpecCalc).      *)
(***************************************************************************)
CalcDone == calcOut # Nil

CalcResult == calcOut[1]

\* The tree node of a folder, as a set: empty when the folder is outside the tree.
NodeOfFolder(folderTree, folder) == { n \in TreeNodesOf(folderTree) : n.name = folder.name }

PathFolders(folderTree, f, d) ==
    { e \in FoldersOf(folderTree) :
        \E n \in NodesOf(f) \ {f} : n.name = e.name /\ d.name \in NamesOf(n) }

\* A template named like t is defined by d itself, or by a folder between f and d that
\* propagates it: the calculator writes it after t under the same key.
Overridden(folderTree, f, t, d) ==
    \E e \in PathFolders(folderTree, f, d) :
        \E j \in DOMAIN e.roleBindingTemplates :
            LET u == e.roleBindingTemplates[j] IN
            /\ u.name = t.name
            /\ (e.name = d.name \/ ShouldPropagate(u))

\* The grant of namespace ns named after template t is made from t.
GrantFrom(out, builderName, ns, t) ==
    LET k == DesiredKey(ns, RoleBindingName(builderName, t.name)) IN
    /\ k \in DOMAIN out
    /\ out[k].roleBindingTemplate = t
    /\ out[k].roleBinding.subjects = t.subjects
    /\ out[k].roleBinding.roleRef = t.roleRef

\* The folders of the subtree of tree node f, the folder of f included.
SubtreeFolders(folderTree, f) ==
    { d \in FoldersOf(folderTree) : d.name \in NamesOf(f) }

StandaloneFolders(folderTree) ==
    { s \in FoldersOf(folderTree) : \A n \in TreeNodesOf(folderTree) : n.name # s.name }

\* C8: a folder that no tree node references yields grants for exactly its own
\* templates in exactly its own namespaces: nothing is inherited into it, and none of
\* its templates, propagating or not, reaches a namespace of another folder.
C8_StandaloneIsolated ==
    CalcDone =>
        \A s \in StandaloneFolders(calcIn) :
            /\ \A ns \in Range(s.namespaces) :
                  /\ { e.roleBindingTemplate : e \in EntriesIn(CalcResult, ns) }
                        = Range(s.roleBindingTemplates)
                  /\ \A t \in Range(s.roleBindingTemplates) :
                        GrantFrom(CalcResult, calcIn.name, ns, t)
            /\ \A k \in DOMAIN CalcResult :
                  CalcResult[k].roleBindingTemplate \in Range(s.roleBindingTemplates) =>
                      CalcResult[k].namespace \in Range(s.namespaces)

\* C8 witness: a standalone folder with a propagating template and a namespace, beside
\* a tree whose root propagates a template to a folder with a namespace.
C8_Witness ==
    /\ CalcDone
    /\ \E s \in StandaloneFolders(calcIn) :
          /\ s.namespaces # <<>>
          /\ \E t \in Range(s.roleBindingTemplates) :
                /\ ShouldPropagate(t)
                /\ GrantFrom(CalcResult, calcIn.name, s.namespaces[1], t)
    /\ \E f \in FoldersOf(calcIn) \ StandaloneFolders(calcIn) :
          /\ f.namespaces # <<>>
          /\ EntriesIn(CalcResult, f.namespaces[1]) # {}

(***************************************************************************)
(* Properties of the admission webhook (checked under SpecWebhook).  adm   *)
(* holds the last response; the backend is as the handler saw it.          *)
(***************************************************************************)
\* The dry-run with which the requester of response a would be tried on operation.
Performable(a, operation) ==
    validateSingleOperation(a.request[1].userInfo, operation, apiNamespaces, apiRoleBindings)

\* Every RoleBinding of the full desired state of a FolderTree, as a delete operation.
FullDeleteSet(ft) ==
    { RoleBindingOperation(OperationDelete, Desired(ft)[k].namespace,
                           Desired(ft)[k].roleBindingTemplate,
                           Ptr(Desired(ft)[k].roleBinding), Nil) : k \in DOMAIN Desired(ft) }

\* The operations the handler of response a ranges over when it checks authority.
AnalyzedOperations(a) ==
    IF a.operation = "DELETE" THEN FullDeleteSet(a.oldObject[1])
    ELSE AnalyzeFolderTreeDiff(a.oldObject, a.object, RoleBindingBuilder(a.object.name, FALSE))

\* C2: if the impersonated dry-run of one operation implied by a create, update or
\* delete request fails, the request is rejected as a whole and the stored FolderTree
\* is what it was, whatever the other dry-runs gave.
C2_FailedDryRunRejects ==
    adm # Nil =>
        LET a == adm[1] IN
        /\ a.failed # Nil => ~a.allowed
        /\ \A operation \in AnalyzedOperations(a) :
              (DryRun(operation) \in DOMAIN a.attempted /\ ~Performable(a, operation))
                  => ~a.allowed
        /\ ~a.allowed => apiFolderTree = a.oldObject

\* C2 witness: a request was rejected on a failed dry-run after another dry-run of the
\* same request had succeeded, and the stored FolderTree is the old one.
C2_Witness ==
    /\ adm # Nil
    /\ adm[1].failed # Nil
    /\ \E e \in DOMAIN adm[1].attempted : e # adm[1].failed[1]
    /\ ~adm[1].allowed
    /\ apiFolderTree = adm[1].oldObject

\* The operations a request stands for: a create for every grant the new FolderTree
\* adds, an update for every grant it changes, a delete for every grant it drops; for
\* a DELETE, a delete for every grant of the FolderTree.
ImpliedOperations(a) ==
    IF a.operation = "DELETE" THEN FullDeleteSet(a.oldObject[1])
    ELSE LET builder == RoleBindingBuilder(a.object.name, FALSE)
             oldDesired == IF a.oldObject = Nil THEN EmptyMap
                           ELSE CalculateDesiredRoleBindings(a.oldObject[1], builder)
             newDesired == CalculateDesiredRoleBindings(a.object, builder)
         IN { RoleBindingOperation(OperationCreate, newDesired[k].namespace,
                                   newDesired[k].roleBindingTemplate,
                                   Nil, Ptr(newDesired[k].roleBinding)) :
                k \in DOMAIN newDesired \ DOMAIN oldDesired }
            \cup
            { RoleBindingOperation(OperationUpdate, newDesired[k].namespace,
                                   newDesired[k].roleBindingTemplate,
                                   Ptr(oldDesired[k].roleBinding),
                                   Ptr(newDesired[k].roleBinding)) :
                k \in { x \in DOMAIN newDesired \cap DOMAIN oldDesired :
                          \/ ~SameGrant(oldDesired[x].roleBinding, newDesired[x].roleBinding)
                          \/ oldDesired[x].roleBinding.labels
                                # newDesired[x].roleBinding.labels } }
            \cup
            { RoleBindingOperation(OperationDelete, oldDesired[k].namespace,
                                   oldDesired[k].roleBindingTemplate,
                                   Ptr(oldDesired[k].roleBinding), Nil) :
                k \in DOMAIN oldDesired \ DOMAIN newDesired }

\* C3 as stated: a request that carries an identity, is not addressed to the status
\* subresource and is not a DELETE by the controller's identity is admitted only with
\* proof of authority: every operation it implies was tried by dry-run and is one the
\* requester can perform.
C3_AdmittedOnlyWithProof ==
    adm # Nil =>
        LET a == adm[1] IN
        (/\ a.allowed
         /\ a.request # Nil
         /\ SubResource(a.request) # "status"
         /\ ~(a.operation = "DELETE" /\ Requester(a.request) = ControllerIdentity))
            => \A operation \in ImpliedOperations(a) :
                  /\ DryRun(operation) \in DOMAIN a.attempted
                  /\ Performable(a, operation)

\* The dry-runs of the full desired state of a FolderTree.
FullDeleteDryRuns(ft) == { DryRun(operation) : operation \in FullDeleteSet(ft) }

\* The response is to a DELETE by a requester the check does not exempt.
CheckedDelete(a) ==
    /\ a.operation = "DELETE"
    /\ a.request # Nil
    /\ ~ExemptFromDeleteValidation(a.request[1].userInfo)

C1_GrantsWereProved ==
    \A k \in DOMAIN provenance :
        provenance[k].by # "" =>
            /\ provenance[k].proved
            /\ apiRoleBindings[k].namespace \in Authority(provenance[k].by)

\* A create in a namespace that does not exist is next in the loop of the pass.
SkipIsNext(operation) ==
    /\ rec.pc = "exec"
    /\ operation \in NextOperations(rec.pending)
    /\ operation.type = OperationCreate
    /\ operation.namespace \notin apiNamespaces

\* C9: the executor looks the namespace up before every create and calls create only
\* if it found it; when it did not, the operation is dropped with nothing created,
\* no error (the pass goes on with the other operations, the status is untouched)
\* and no request queued; and such an operation is never a reason for the pass to
\* fail.
C9_MissingNamespaceSkipped ==
    /\ [][/\ \A k \in DOMAIN apiRoleBindings' \ DOMAIN apiRoleBindings :
                /\ rec.pc = "creating"
                /\ k = OperationKey(rec.cur[1])
          /\ (rec'.pc = "creating" /\ rec.pc # "creating") =>
                /\ rec.pc = "exec"
                /\ rec'.cur[1] \in NextOperations(rec.pending)
                /\ rec'.cur[1].namespace \in apiNamespaces
          /\ \A operation \in rec.pending :
                (SkipIsNext(operation) /\ rec'.pc # "idle" /\ operation \notin rec'.pending)
                    => /\ rec' = [rec EXCEPT !.pending = @ \ {operation},
                                             !.skipped = @ \cup {OperationKey(operation)}]
                       /\ UNCHANGED <<apiRoleBindings, apiFolderTree, queued>>]_vars
    /\ [](\A operation \in rec.pending :
             (quiet /\ SkipIsNext(operation) /\ NextOperations(rec.pending) = {operation})
                 => ~CallFails)

\* C9 witness: in one pass a create was skipped for a missing namespace and the
\* executor has gone on to look up the namespace of another create, and found it.
C9_Witness ==
    /\ rec.pc = "creating"
    /\ rec.skipped # {}
    /\ \A k \in rec.skipped : k \notin DOMAIN apiRoleBindings
    /\ apiFolderTree # Nil
    /\ apiFolderTree[1].status.conditions = <<>>

\* The namespace of a grant key of the system.
SysKeyNamespace(k) ==
    CHOOSE ns \in SysNamespaces :
        \E p \in SysPolicies : k \in DOMAIN Desired(p) /\ Desired(p)[k].namespace = ns

\* The create of a grant the FolderTree wants was skipped since the FolderTree last
\* changed, its namespace exists now, and nothing but the controller acts any more.
SkippedNowPossible(k) ==
    /\ quiet
    /\ apiFolderTree # Nil
    /\ k \in missed
    /\ k \in DOMAIN Desired(apiFolderTree[1])
    /\ SysKeyNamespace(k) \in apiNamespaces

Converged ==
    /\ apiFolderTree # Nil
    /\ LET desired == Desired(apiFolderTree[1])
           existing == getExistingRoleBindings(apiRoleBindings, apiFolderTree[1].name)
       IN /\ DOMAIN existing = { k \in DOMAIN desired : desired[k].namespace \in apiNamespaces }
          /\ \A k \in DOMAIN existing :
                /\ Range(existing[k].subjects) = Range(desired[k].roleBinding.subjects)
                /\ existing[k].roleRef = desired[k].roleBinding.roleRef
                /\ \A label \in DOMAIN desired[k].roleBinding.labels :
                      /\ label \in DOMAIN existing[k].labels
                      /\ existing[k].labels[label] = desired[k].roleBinding.labels[label]

\* C5 as stated: once the FolderTree and the namespaces stop changing and backend
\* calls stop failing, the live grants labelled for the FolderTree eventually are the
\* desired grants whose namespace exists, with the desired subjects, roleRef and
\* labels, and stay so.
C5_EventuallyConverged == (quiet /\ apiFolderTree # Nil) ~> []Converged

(***************************************************************************)
(* Properties of the cluster diff, stated on the step in which a pass      *)
(* analyses (ReconcileAnalyze): what the pass then holds in rec.pending is *)
(* what AnalyzeDiff returned for the stored FolderTree and the live        *)
(* RoleBindings of that moment.                                            *)
(***************************************************************************)
\* The step of a pass that runs the diff.
Analysed == rec.pc = "idle" /\ rec'.pc = "exec"

\* The live RoleBindings that carry the tree label of the stored FolderTree.
ManagedKeys ==
    { k \in DOMAIN apiRoleBindings :
        /\ TreeLabel \in DOMAIN apiRoleBindings[k].labels
        /\ apiRoleBindings[k].labels[TreeLabel] = apiFolderTree[1].name }

DesiredNow == Desired(apiFolderTree[1])

\* The operations of a type that a set of operations holds for a key.
OperationsFor(operations, type, key) ==
    { o \in operations : o.type = type /\ OperationKey(o) = key }

AnyOperationFor(operations, key) == { o \in operations : OperationKey(o) = key }

\* The labels the builder sets are on the live RoleBinding with the same values.
SameTrackingLabels(liveRb, desiredRb) ==
    \A l \in DOMAIN desiredRb.labels :
        l \in DOMAIN liveRb.labels /\ liveRb.labels[l] = desiredRb.labels[l]

Identical(liveRb, desiredRb) ==
    /\ liveRb.subjects = desiredRb.subjects
    /\ liveRb.roleRef = desiredRb.roleRef
    /\ SameTrackingLabels(liveRb, desiredRb)

\* C11: the cluster diff emits exactly one CREATE, carrying the desired RoleBinding,
\* for each desired key that no live RoleBinding of the tree has, and no operation
\* for a desired key whose live RoleBinding is identical in subjects, roleRef and
\* tracking labels.
C11_CreateForAbsentNoneForIdentical ==
    [][Analysed =>
        \A k \in DOMAIN DesiredNow :
            /\ k \notin ManagedKeys =>
                  /\ Cardinality(AnyOperationFor(rec'.pending, k)) = 1
                  /\ \A o \in AnyOperationFor(rec'.pending, k) :
                        /\ o.type = OperationCreate
                        /\ o.desiredRoleBinding = Ptr(DesiredNow[k].roleBinding)
            /\ (k \in ManagedKeys /\ Identical(apiRoleBindings[k], DesiredNow[k].roleBinding)) =>
                  AnyOperationFor(rec'.pending, k) = {}]_vars

\* A pass has just analysed, nothing is executed yet: one desired key is absent and
\* has its CREATE, another is live and identical (with a label and an annotation of
\* someone else) and has no operation.
C11_Witness ==
    /\ rec.pc = "exec"
    /\ provenance = EmptyMap
    /\ \E k1 \in DOMAIN DesiredNow, k2 \in DOMAIN DesiredNow :
          /\ k1 \notin DOMAIN apiRoleBindings
          /\ OperationsFor(rec.pending, OperationCreate, k1) # {}
          /\ k2 \in ManagedKeys
          /\ Identical(apiRoleBindings[k2], DesiredNow[k2].roleBinding)
          /\ "team" \in DOMAIN apiRoleBindings[k2].labels
          /\ AnyOperationFor(rec.pending, k2) = {}

\* The subjects of a list, each being its own key (kind, name, namespace, apiGroup).
SubjectSet(subjects) == Range(subjects)

Differs(liveRb, desiredRb) ==
    \/ SubjectSet(liveRb.subjects) # SubjectSet(desiredRb.subjects)
    \/ liveRb.roleRef # desiredRb.roleRef
    \/ ~SameTrackingLabels(liveRb, desiredRb)

\* C12: for a desired key that a live RoleBinding of the tree has, the cluster diff
\* emits exactly one UPDATE, and no DELETE or CREATE, when the live RoleBinding
\* differs from the desired one in its set of subjects, in its roleRef or in a
\* tracking label.
C12_UpdateForDiffering ==
    [][Analysed =>
        \A k \in DOMAIN DesiredNow \cap ManagedKeys :
            Differs(apiRoleBindings[k], DesiredNow[k].roleBinding) =>
                /\ Cardinality(AnyOperationFor(rec'.pending, k)) = 1
                /\ \A o \in AnyOperationFor(rec'.pending, k) : o.type = OperationUpdate]_vars

\* C13: when a live RoleBinding of the tree sits under a desired key with a roleRef
\* other than the desired one, the cluster diff emits a DELETE of the live
\* RoleBinding and a CREATE of the desired one, and no UPDATE.
C13_RoleRefChangeIsDeleteCreate ==
    [][Analysed =>
        \A k \in DOMAIN DesiredNow \cap ManagedKeys :
            apiRoleBindings[k].roleRef # DesiredNow[k].roleBinding.roleRef =>
                /\ \E o \in OperationsFor(rec'.pending, OperationDelete, k) :
                      o.existingRoleBinding = Ptr(apiRoleBindings[k])
                /\ \E o \in OperationsFor(rec'.pending, OperationCreate, k) :
                      o.desiredRoleBinding = Ptr(DesiredNow[k].roleBinding)
                /\ OperationsFor(rec'.pending, OperationUpdate, k) = {}]_vars

DiffDone == diffOut # Nil

OldPolicy == diffIn[1].old

NewPolicy == diffIn[1].new

SpecDiffResult == diffOut[1].spec

ClusterDiffResult == diffOut[1].cluster

\* C15: the spec diff between a FolderTree and itself yields no operations.
C15_SelfDiffIsEmpty ==
    (DiffDone /\ OldPolicy = Ptr(NewPolicy)) => SpecDiffResult = {}

\* The diff has run on a FolderTree against itself, one with a tree for which the
\* calculator yields RoleBindings in two namespaces or more.
C15_Witness ==
    /\ DiffDone
    /\ OldPolicy = Ptr(NewPolicy)
    /\ NewPolicy.spec.tree # Nil
    /\ Cardinality({ Desired(NewPolicy)[k].namespace : k \in DOMAIN Desired(NewPolicy) }) >= 2
    /\ SpecDiffResult = {}

\* The one template and the namespaces of a FolderTree of the diff family.
TheTemplate(ft) == ft.spec.folders[1].roleBindingTemplates[1]

TheNamespaces(ft) == Range(ft.spec.folders[1].namespaces)

FamilyPair == DiffDone /\ OldPolicy # Nil /\ OldPolicy[1] \in DiffPolicies /\ NewPolicy \in DiffPolicies

\* Old and new differ in the name of the FolderTree and in nothing else.
PolicyRenamed == OldPolicy[1].name # NewPolicy.name /\ OldPolicy[1].spec = NewPolicy.spec

\* Old and new differ in the name of the template and in nothing else.
TemplateRenamed ==
    /\ OldPolicy[1].name = NewPolicy.name
    /\ TheTemplate(OldPolicy[1]).name # TheTemplate(NewPolicy).name
    /\ [OldPolicy[1].spec EXCEPT !.folders[1].roleBindingTemplates[1].name =
            TheTemplate(NewPolicy).name] = NewPolicy.spec

\* For each namespace a DELETE of the RoleBinding named after the old FolderTree and
\* template, a CREATE of the one named after the new ones, and no UPDATE.
DeleteCreatePairs(operations) ==
    /\ \A ns \in TheNamespaces(NewPolicy) :
          /\ \E o \in operations :
                /\ o.type = OperationDelete
                /\ o.existingRoleBinding[1].namespace = ns
                /\ o.existingRoleBinding[1].name =
                      RoleBindingName(OldPolicy[1].name, TheTemplate(OldPolicy[1]).name)
          /\ \E o \in operations :
                /\ o.type = OperationCreate
                /\ o.desiredRoleBinding[1].namespace = ns
                /\ o.desiredRoleBinding[1].name =
                      RoleBindingName(NewPolicy.name, TheTemplate(NewPolicy).name)
    /\ \A o \in operations : o.type # OperationUpdate

C16_TemplateRenameIsDeleteCreate ==
    (FamilyPair /\ TemplateRenamed) => DeleteCreatePairs(SpecDiffResult)

\* Old and new differ in the subject list of the template at most.
OnlySubjectsChange ==
    /\ OldPolicy[1].name = NewPolicy.name
    /\ [OldPolicy[1].spec EXCEPT !.folders[1].roleBindingTemplates[1].subjects =
            TheTemplate(NewPolicy).subjects] = NewPolicy.spec

UpdateIn(operations, ns) ==
    \E o \in operations : o.type = OperationUpdate /\ o.namespace = ns

\* C17: subject lists count as equal exactly when they hold the same set of subjects,
\* whatever the order and the repetitions: when only the subject list of a template
\* changes, the spec diff and the cluster diff emit an UPDATE for its RoleBindings
\* exactly when the two lists differ as sets.
C17_SubjectListsComparedAsSets ==
    (FamilyPair /\ OnlySubjectsChange) =>
        \A ns \in TheNamespaces(NewPolicy) :
            LET differ == SubjectSet(TheTemplate(OldPolicy[1]).subjects)
                              # SubjectSet(TheTemplate(NewPolicy).subjects)
            IN /\ UpdateIn(SpecDiffResult, ns) <=> differ
               /\ UpdateIn(ClusterDiffResult, ns) <=> differ

\* The half of C17 both analyzers keep: a reordered list causes no UPDATE.
C17_ReorderingIsNoUpdate ==
    (FamilyPair /\ OnlySubjectsChange
       /\ TheTemplate(OldPolicy[1]).subjects = <<SubjectX, SubjectY>>
       /\ TheTemplate(NewPolicy).subjects = <<SubjectY, SubjectX>>) =>
        \A ns \in TheNamespaces(NewPolicy) :
            ~UpdateIn(SpecDiffResult, ns) /\ ~UpdateIn(ClusterDiffResult, ns)

(***************************************************************************)
(* Properties of the executor.                                             *)
(***************************************************************************)
\* The step in which the pass has executed the UPDATE for the key k.
UpdateExecuted(k) ==
    /\ rec.pc = "exec"
    /\ rec'.pc = "exec"
    /\ k \in DOMAIN apiRoleBindings
    /\ \E o \in rec.pending \ rec'.pending : o.type = OperationUpdate /\ OperationKey(o) = k

\* The label keys the builder sets.
TrackingLabels == DOMAIN ManagedLabels("", "")

UnmanagedLabels(rb) == [l \in DOMAIN rb.labels \ TrackingLabels |-> rb.labels[l]]

\* C18: executing an UPDATE changes only the subjects, the roleRef and the tracking
\* labels of the existing RoleBinding: its name and namespace, the labels the
\* controller does not manage, its annotations and its owner reference are after the
\* update what they were before.
C18_UpdateKeepsUnrelatedFields ==
    [][\A k \in DOMAIN apiRoleBindings :
          UpdateExecuted(k) =>
              /\ k \in DOMAIN apiRoleBindings'
              /\ apiRoleBindings'[k].name = apiRoleBindings[k].name
              /\ apiRoleBindings'[k].namespace = apiRoleBindings[k].namespace
              /\ apiRoleBindings'[k].annotations = apiRoleBindings[k].annotations
              /\ apiRoleBindings'[k].owner = apiRoleBindings[k].owner
              /\ UnmanagedLabels(apiRoleBindings'[k]) = UnmanagedLabels(apiRoleBindings[k])]_vars

\* The part of C18 the executor keeps: the UPDATE sets subjects, roleRef and tracking
\* labels to the desired ones and keeps name, namespace, annotations and owner
\* reference, and no other RoleBinding changes.
C18_UpdateKeepsAnnotationsAndOwner ==
    [][\A k \in DOMAIN apiRoleBindings :
          UpdateExecuted(k) =>
              /\ k \in DOMAIN apiRoleBindings'
              /\ apiRoleBindings'[k].name = apiRoleBindings[k].name
              /\ apiRoleBindings'[k].namespace = apiRoleBindings[k].namespace
              /\ apiRoleBindings'[k].annotations = apiRoleBindings[k].annotations
              /\ apiRoleBindings'[k].owner = apiRoleBindings[k].owner
              /\ apiRoleBindings'[k].subjects = DesiredNow[k].roleBinding.subjects
              /\ apiRoleBindings'[k].roleRef = DesiredNow[k].roleBinding.roleRef
              /\ SameTrackingLabels(apiRoleBindings'[k], DesiredNow[k].roleBinding)
              /\ \A j \in DOMAIN apiRoleBindings \ {k} :
                    j \in DOMAIN apiRoleBindings' /\ apiRoleBindings'[j] = apiRoleBindings[j]]_vars

\* The step in which a pass that has analysed ends, and whether every operation of
\* it returned nil.
PassEnds == rec.pc \in {"exec", "creating"} /\ rec'.pc = "idle"

PassSucceeded == rec.pc = "exec" /\ rec.pending = {}

Occurrences(conditions, conditionType) ==
    Cardinality({ i \in DOMAIN conditions : conditions[i] = conditionType })

\* Of Ready and ProcessingFailed the status holds conditionType, once, and not the other.
HoldsOnly(stored, conditionType) ==
    /\ stored # Nil
    /\ Occurrences(stored[1].status.conditions, conditionType) = 1
    /\ \A other \in {ConditionTypeReady, ConditionTypeProcessingFailed} \ {conditionType} :
          Occurrences(stored[1].status.conditions, other) = 0

TookEffect(operation, nss, live) ==
    LET key == OperationKey(operation) IN
    IF operation.type = OperationCreate
    THEN \/ operation.namespace \notin nss
         \/ key \in DOMAIN live /\ live[key] = operation.desiredRoleBinding[1]
    ELSE IF operation.type = OperationUpdate
    THEN /\ key \in DOMAIN live
         /\ live[key].subjects = operation.desiredRoleBinding[1].subjects
         /\ live[key].roleRef = operation.desiredRoleBinding[1].roleRef
         /\ SameTrackingLabels(live[key], operation.desiredRoleBinding[1])
    ELSE key \notin DOMAIN live

\* C20: when an operation fails during a pass, the pass ends there: the operations
\* that are left are dropped unattempted, what was applied stays as it is, and the
\* request is queued again by the framework.  Within a pass an operation leaves the
\* list only by taking effect, and none comes back into it: there is no retry.
C20_FirstFailureEndsPass ==
    [][/\ (PassEnds /\ ~PassSucceeded) =>
              /\ apiRoleBindings' = apiRoleBindings
              /\ rec'.pending = {}
              /\ queued'
       /\ (rec.pc \in {"exec", "creating"} /\ rec'.pc \in {"exec", "creating"}) =>
              /\ rec'.pending \subseteq rec.pending
              /\ \A o \in rec.pending \ rec'.pending :
                    TookEffect(o, apiNamespaces', apiRoleBindings')]_vars

\* A pass has failed after it had applied an operation: what it wrote is in place, a
\* desired RoleBinding of an existing namespace is still missing, and the request is
\* queued.
C20_Witness ==
    /\ rec.pc = "idle"
    /\ queued
    /\ HoldsOnly(apiFolderTree, ConditionTypeProcessingFailed)
    /\ \E k \in DOMAIN provenance :
          k \in DOMAIN apiRoleBindings /\ apiRoleBindings[k] = DesiredNow[k].roleBinding
    /\ \E k \in DOMAIN DesiredNow :
          k \notin DOMAIN apiRoleBindings /\ DesiredNow[k].namespace \in apiNamespaces

\* The pass in progress runs again after a pass that failed: the FolderTree it read
\* holds ProcessingFailed.
RerunAfterFailure == rec.folderTree # Nil /\ HoldsOnly(rec.folderTree, ConditionTypeProcessingFailed)

\* An operation that is still to be done in a backend of these RoleBindings, those
\* of the keys managed carrying the tree label.
StillNeeded(operation, live, managed) ==
    LET key == OperationKey(operation) IN
    IF operation.type = OperationCreate THEN key \notin managed
    ELSE IF operation.type = OperationUpdate
    THEN key \in managed /\ Differs(live[key], operation.desiredRoleBinding[1])
    ELSE key \in managed /\ key \notin DOMAIN DesiredNow

\* The live RoleBindings of the tree are the desired ones of the existing namespaces,
\* in subjects, roleRef and tracking labels.
LiveIsDesired(nss, live, managed) ==
    /\ managed \subseteq DOMAIN DesiredNow
    /\ \A k \in DOMAIN DesiredNow :
          DesiredNow[k].namespace \in nss =>
              k \in managed /\ ~Differs(live[k], DesiredNow[k].roleBinding)

\* C21: a pass that runs again on the unchanged FolderTree after a pass that stopped
\* partway computes only operations that are still needed, none that repeats or
\* undoes what was applied, and, when none of its calls fails, leaves the live
\* RoleBindings of the tree equal to the desired ones.
C21_RerunCompletesThePass ==
    [][/\ (Analysed /\ HoldsOnly(apiFolderTree, ConditionTypeProcessingFailed)) =>
              \A o \in rec'.pending : StillNeeded(o, apiRoleBindings, ManagedKeys)
       /\ (PassEnds /\ PassSucceeded /\ RerunAfterFailure) =>
              LiveIsDesired(apiNamespaces, apiRoleBindings, ManagedKeys)]_vars

\* The part of C21 that does not depend on the comparison of subjects: the pass that
\* runs again computes only operations still needed.
C21_RerunComputesOnlyWhatIsNeeded ==
    [][(Analysed /\ HoldsOnly(apiFolderTree, ConditionTypeProcessingFailed)) =>
          \A o \in rec'.pending : StillNeeded(o, apiRoleBindings, ManagedKeys)]_vars

(***************************************************************************)
(* Properties of the admission handlers, stated on the response kept in    *)
(* adm.                                                                    *)
(***************************************************************************)
\* The last request was an update addressed to the status subresource.
StatusUpdate ==
    adm # Nil /\ adm[1].operation = "UPDATE" /\ SubResource(adm[1].request) = "status"

\* C22: an update addressed to the status subresource bypasses the authorization
\* check: no dry-run is attempted for it, and it is admitted whenever the object
\* passes the structural validation.
C22_StatusUpdateBypassesCheck ==
    StatusUpdate =>
        /\ adm[1].attempted = EmptyMap
        /\ adm[1].failed = Nil
        /\ (validateNewStructure(adm[1].object) /\ validateBusinessLogic(adm[1].object))
              => adm[1].allowed

\* bob, who may write RoleBindings in ns2 only, had a status update admitted whose
\* object asks for operations in other namespaces.
C22_Witness ==
    /\ StatusUpdate
    /\ Requester(adm[1].request) = "bob"
    /\ \E o \in AnalyzeFolderTreeDiff(adm[1].oldObject, adm[1].object,
                                      RoleBindingBuilder(adm[1].object.name, FALSE)) :
          o.namespace \notin Authority("bob")
    /\ adm[1].allowed
    /\ adm[1].attempted = EmptyMap

\* The last request was a DELETE of the FolderTree by this user.
DeleteBy(username) ==
    adm # Nil /\ adm[1].operation = "DELETE" /\ Requester(adm[1].request) = username

\* C23: a DELETE of the FolderTree issued under the controller's own service-account
\* identity is taken as trusted and admitted without any impersonated dry-run.
C23_ControllerDeleteIsTrusted ==
    DeleteBy(ServiceAccountIdentity) => (adm[1].allowed /\ adm[1].attempted = EmptyMap)

\* What the DELETE validation does keep: a request under one of the two names it
\* compares with is admitted without any dry-run.
C23_NamedUsersAreTrusted ==
    (DeleteBy(ControllerIdentity) \/ DeleteBy(SystemAdmin)) =>
        (adm[1].allowed /\ adm[1].attempted = EmptyMap)

\* The kinds of dry-run the last validation sent.
KindsAttempted == IF adm = Nil THEN {} ELSE { e.type : e \in DOMAIN adm[1].attempted }

\* C24: no admission validation, whether it admits or rejects, changes a RoleBinding
\* of the backend: every create, update and delete it sends is a dry-run, so the
\* live RoleBindings are after the validation what they were before it.
C24_ValidationPersistsNothing == [][apiRoleBindings' = apiRoleBindings]_vars

\* A validation admitted a request after dry-runs of a create and of a delete, another
\* after the dry-run of an update, and a third rejected a request after a dry-run the
\* API server had accepted.
C24_Witness ==
    /\ adm # Nil
    /\ adm[1].allowed
    /\ {OperationCreate, OperationDelete} \subseteq KindsAttempted

C24_WitnessUpdate ==
    /\ adm # Nil
    /\ adm[1].allowed
    /\ OperationUpdate \in KindsAttempted

C24_WitnessRejected ==
    /\ adm # Nil
    /\ ~adm[1].allowed
    /\ adm[1].failed # Nil
    /\ \E e \in DOMAIN adm[1].attempted : Ptr(e) # adm[1].failed

\* The last validation was rejected by the authorization check.
Rejected == adm # Nil /\ adm[1].message # Nil

\* A message names a word when the word is one of the pieces it was built from.
Names(message, word) == \E i \in DOMAIN message : message[i] = word

\* The word a message uses for the kind of an operation.
KindWord(operation) ==
    IF operation.type = OperationCreate THEN "CREATE"
    ELSE IF operation.type = OperationUpdate THEN "UPDATE"
    ELSE "DELETE"

\* The name of the RoleBinding an operation is about.
GrantName(operation) ==
    IF operation.type = OperationCreate THEN operation.desiredRoleBinding[1].name
    ELSE operation.existingRoleBinding[1].name

\* The message names the kind, the namespace and the RoleBinding of the operation.
NamesOperation(message, operation) ==
    /\ Names(message, KindWord(operation))
    /\ Names(message, operation.namespace)
    /\ Names(message, GrantName(operation))

\* C25: every rejection by the authorization check names the kind of the failing
\* operation, its namespace, the RoleBinding's name and the template's name, whether
\* the operation is a CREATE, an UPDATE or a DELETE.
C25_RejectionNamesEverything ==
    Rejected =>
        /\ NamesOperation(adm[1].message[1], adm[1].failedOperation[1])
        /\ Names(adm[1].message[1], adm[1].failedOperation[1].roleBindingTemplate.name)

\* What the messages do keep: kind, namespace and RoleBinding are named in every
\* rejection, and the template in every one but that of a DELETE operation of an
\* update.
C25_RejectionNamesOperation ==
    Rejected =>
        /\ NamesOperation(adm[1].message[1], adm[1].failedOperation[1])
        /\ (adm[1].operation = "DELETE" \/ adm[1].failedOperation[1].type # OperationDelete)
              => Names(adm[1].message[1],
                       adm[1].failedOperation[1].roleBindingTemplate.name)

\* The CREATE operations whose dry-run the last validation sent.
CreatesAttempted ==
    IF adm = Nil THEN {}
    ELSE { operation \in AnalyzeFolderTreeDiff(adm[1].oldObject, adm[1].object,
                                               RoleBindingBuilder(adm[1].object.name, FALSE)) :
             /\ operation.type = OperationCreate
             /\ DryRun(operation) \in DOMAIN adm[1].attempted }

\* C26: the name a dry-run CREATE is sent under is built from the policy's name, the
\* template's name and the reading of the nanosecond clock; it is the name of no live
\* RoleBinding of the namespace, so the API server never refuses the dry-run because
\* the name is taken: it accepts it whenever the user is authorized for the namespace
\* and the namespace exists.
C26_DryRunNameIsFree ==
    \A operation \in CreatesAttempted :
        /\ \A now \in UnixNanoReadings :
              LET testRoleBinding == TestRoleBinding(operation, now)
              IN /\ testRoleBinding.name =
                        "dryrun-foldertree-"
                            \o RoleBindingName(adm[1].object.name,
                                               operation.roleBindingTemplate.name)
                            \o "-" \o operation.roleBindingTemplate.name
                            \o "-" \o ToString(now)
                 /\ DesiredKey(testRoleBinding.namespace, testRoleBinding.name)
                        \notin DOMAIN apiRoleBindings
        /\ Ptr(DryRun(operation)) # adm[1].failed
              <=> /\ operation.namespace \in Authority(Requester(adm[1].request))
                  /\ operation.namespace \in apiNamespaces

\* A request was admitted after the dry-run of a CREATE for a RoleBinding whose own
\* name is taken in its namespace.
C26_Witness ==
    /\ adm # Nil
    /\ adm[1].allowed
    /\ \E operation \in CreatesAttempted : OperationKey(operation) \in DOMAIN apiRoleBindings

\* The pairs of different templates that the calculator builds into a RoleBinding of
\* the same key: in a namespace of folder d, a template that an ancestor's folder
\* propagates and a template of d's own with the same name.
Collisions(folderTree) ==
    { c \in [namespace : UNION { Range(d.namespaces) : d \in FoldersOf(folderTree) },
             inherited : UNION { Range(f.roleBindingTemplates) : f \in FoldersOf(folderTree) },
             own       : UNION { Range(d.roleBindingTemplates) : d \in FoldersOf(folderTree) }] :
        /\ c.inherited # c.own
        /\ c.inherited.name = c.own.name
        /\ ShouldPropagate(c.inherited)
        /\ \E n \in TreeNodesOf(folderTree) :
              /\ \E f \in FoldersOf(folderTree) :
                    f.name = n.name /\ c.inherited \in Range(f.roleBindingTemplates)
              /\ \E d \in DescendantFolders(folderTree, n) :
                    /\ c.own \in Range(d.roleBindingTemplates)
                    /\ c.namespace \in Range(d.namespaces) }

\* C27: when two different templates would produce a RoleBinding of the same
\* namespace and name, the calculation fails; it never returns a desired state that
\* keeps one of the two definitions and drops the other.
C27_CollisionFailsTheCalculation == ~(CalcDone /\ Collisions(calcIn) # {})

\* What the calculator does with such a pair: it returns a desired state, and the
\* entry of the key holds the folder's own template, written after the inherited one.
C27_LastWriteWins ==
    CalcDone =>
        \A c \in Collisions(calcIn) :
            LET k == DesiredKey(c.namespace, RoleBindingName(calcIn.name, c.own.name))
            IN /\ k \in DOMAIN CalcResult
               /\ CalcResult[k].roleBindingTemplate # c.inherited

\* C28: every calculated RoleBinding is named foldertree-<policy>-<template> from the
\* policy's name and the template's name alone, carries tracking labels equal to
\* those two names, and has the template's subjects and roleRef, whether the template
\* is the folder's own or inherited from an ancestor at any depth.
C28_GrantIsNamedAndLabelledFromPolicyAndTemplate ==
    CalcDone =>
        \A k \in DOMAIN CalcResult :
            LET template    == CalcResult[k].roleBindingTemplate
                roleBinding == CalcResult[k].roleBinding
            IN /\ roleBinding.name = "foldertree-" \o calcIn.name \o "-" \o template.name
               /\ roleBinding.namespace = CalcResult[k].namespace
               /\ k = roleBinding.namespace \o "/" \o roleBinding.name
               /\ roleBinding.labels["foldertree.rbac.kubevirt.io/tree"] = calcIn.name
               /\ roleBinding.labels["foldertree.rbac.kubevirt.io/role-binding-template"]
                     = template.name
               /\ roleBinding.subjects = template.subjects
               /\ roleBinding.roleRef = template.roleRef

\* The calculation built, for a namespace of folder c, a RoleBinding from a template
\* that folder a, two levels up, propagates, beside one from a template of c's own.
C28_Witness ==
    /\ CalcDone
    /\ calcIn.spec.tree = Ptr(TreeNode("a", <<TreeNode("b", <<TreeNode("c", <<>>)>>)>>))
    /\ \E fa \in FoldersOf(calcIn), fc \in FoldersOf(calcIn) :
          /\ fa.name = "a"
          /\ fc.name = "c"
          /\ \E k \in DOMAIN CalcResult :
                /\ CalcResult[k].namespace \in Range(fc.namespaces)
                /\ CalcResult[k].roleBindingTemplate \in Range(fa.roleBindingTemplates)
          /\ \E k \in DOMAIN CalcResult :
                /\ CalcResult[k].namespace \in Range(fc.namespaces)
                /\ CalcResult[k].roleBindingTemplate \in Range(fc.roleBindingTemplates)

\* The live RoleBindings that carry the tracking label of the FolderTree p1.
Tracked == { k \in DOMAIN apiRoleBindings :
               /\ TreeLabel \in DOMAIN apiRoleBindings[k].labels
               /\ apiRoleBindings[k].labels[TreeLabel] = TreeName }

\* C29: after the policy is deleted, every RoleBinding that carries the policy's
\* tracking label is eventually removed from every namespace.
C29_TrackedGrantsAreRemoved == (apiFolderTree = Nil) ~> (Tracked = {})

\* What does get removed, the collector being fair: the RoleBindings that carry an
\* owner reference to the deleted policy.
C29_OwnedGrantsAreRemoved == (apiFolderTree = Nil) ~> (Owned(apiRoleBindings) = {})

\* C30: the RoleBindings of a deleted policy are found through their tracking label
\* and deleted by the executor itself; the cleanup does not depend on the backend's
\* garbage collection.  With the controller's steps fair and the collector free not
\* to act, the deleted policy's RoleBindings that the controller made are removed.
C30_ExecutorRemovesGrantsOfDeletedPolicy ==
    (apiFolderTree = Nil) ~> (Tracked \cap Owned(apiRoleBindings) = {})

\* A step by which someone other than the controller deletes a managed RoleBinding or
\* changes its subjects, roleRef or tracking labels.
DriftEvent ==
    /\ rec' = rec
    /\ apiFolderTree' = apiFolderTree
    /\ apiRoleBindings' # apiRoleBindings

\* Every managed RoleBinding is live with the subjects, the roleRef and the tracking
\* labels that the stored policy asks for.
Restored ==
    \A k \in DOMAIN Desired(PassPolicy) :
        /\ k \in DOMAIN apiRoleBindings
        /\ Range(apiRoleBindings[k].subjects) = Range(Desired(PassPolicy)[k].roleBinding.subjects)
        /\ apiRoleBindings[k].roleRef = Desired(PassPolicy)[k].roleBinding.roleRef
        /\ apiRoleBindings[k].labels = Desired(PassPolicy)[k].roleBinding.labels

\* C31: when a managed RoleBinding is deleted, or has its subjects, roleRef or
\* tracking labels changed, by anyone other than the controller, the event queues a
\* reconcile request without any change of the policy, and the RoleBinding is
\* eventually restored to its desired content.
C31_DriftIsRepaired ==
    /\ [][DriftEvent => queued']_vars
    /\ quiet ~> Restored

\* What the controller keeps of it: the event queues a request, and the desired
\* content comes back after a deletion, after a change of the subjects that
\* subjectsEqual tells from the desired ones, and after a change of the template
\* label.
C31_DriftQueuesARequest == [][DriftEvent => queued']_vars

\* The live RoleBinding of ns1, if there is one, differs from the desired one in no
\* more than the order of its subjects or the template label.
RepairableDrift ==
    LET k == "ns1/foldertree-p1-editor" IN
    k \in DOMAIN apiRoleBindings =>
        /\ apiRoleBindings[k].subjects \in {<<SubjectX, SubjectY>>, <<SubjectY, SubjectX>>, <<SubjectX>>}
        /\ apiRoleBindings[k].roleRef = Desired(PassPolicy)[k].roleBinding.roleRef
        /\ apiRoleBindings[k].labels[TreeLabel] = TreeName

C31_RepairableDriftIsRepaired == (quiet /\ RepairableDrift) ~> Restored


(***************************************************************************)
(* C32.  New namespaces must exist.                                        *)
(***************************************************************************)
\* The namespaces a FolderTree assigns to its folders.
NamespacesOf(ft) == UNION { Range(ft.spec.folders[i].namespaces) : i \in DOMAIN ft.spec.folders }

\* The namespaces the request handled last adds to the policy: all of them for a
\* create, those the old object did not assign for an update.
AddedNamespaces ==
    IF adm[1].oldObject = Nil THEN NamespacesOf(adm[1].object)
    ELSE NamespacesOf(adm[1].object) \ NamespacesOf(adm[1].oldObject[1])

\* A create or an update of the FolderTree itself, sent by a user.
WriteByUser ==
    /\ adm # Nil
    /\ adm[1].operation \in {"CREATE", "UPDATE"}
    /\ adm[1].request # Nil
    /\ adm[1].request[1].subResource = ""

\* C32: a create or an update that adds to the policy a namespace which does not
\* exist is rejected.
C32_NewNamespaceMustExist ==
    (WriteByUser /\ AddedNamespaces \ apiNamespaces # {}) => ~adm[1].allowed

\* The added namespaces in which the new policy desires a RoleBinding.
AddedWithGrants ==
    { ns \in AddedNamespaces : \E k \in DOMAIN Desired(adm[1].object) : Desired(adm[1].object)[k].namespace = ns }

\* What the handlers keep of it: the request is rejected when the new policy desires a
\* RoleBinding in an added namespace that does not exist.
C32_NewNamespaceWithGrantsMustExist ==
    (WriteByUser /\ AddedWithGrants \ apiNamespaces # {}) => ~adm[1].allowed

(***************************************************************************)
(* C33.  Namespaces that were deleted after they were assigned.            *)
(***************************************************************************)
\* The namespace of the operation whose dry-run made the handler reject the request.
FailedNamespace == adm[1].failedOperation[1].namespace

\* C33: an update or a delete is not rejected because a namespace the stored policy
\* assigns, or a RoleBinding in it, no longer exists: the dry-run that fails, if one
\* does, is about a namespace that exists or one the request adds.
C33_DeletedNamespaceIsNoObstacle ==
    (adm # Nil /\ adm[1].operation \in {"UPDATE", "DELETE"} /\ adm[1].failedOperation # Nil) =>
        (FailedNamespace \in apiNamespaces \/ FailedNamespace \notin NamespacesOf(adm[1].oldObject[1]))

\* The same for the delete alone.
C33_DeleteSurvivesDeletedNamespace ==
    (adm # Nil /\ adm[1].operation = "DELETE" /\ adm[1].failedOperation # Nil) => FailedNamespace \in apiNamespaces

(***************************************************************************)
(* C34.  The operations validated and the operations applied.  The diff    *)
(* harness hands the old and the new FolderTree to the webhook's analyzer  *)
(* and, with the RoleBindings the reconciler made for the old one as the   *)
(* live state, the new one to the reconciler's.  An admission request      *)
(* carries an old object of the same name as the new one, or none.         *)
(***************************************************************************)
\* The kinds and keys of a set of operations.
Footprint(operations) == { DryRun(operation) : operation \in operations }

AdmissionPair == DiffDone /\ (OldPolicy = Nil \/ OldPolicy[1].name = NewPolicy.name)

C34_WitnessDelete ==
    /\ AdmissionPair
    /\ OldPolicy # Nil
    /\ OperationDelete \in { operation.type : operation \in ClusterDiffResult }

(***************************************************************************)
(* Uniqueness harness: FolderTrees of two names written concurrently.  The *)
(* API server calls the webhook for a write and persists the object once   *)
(* the webhook has admitted it; nothing orders the calls for different     *)
(* objects, so a write may be validated while another, validated earlier,  *)
(* is not yet persisted.  In the other harnesses one FolderTree is stored  *)
(* and validateGlobalUniqueness, which skips the FolderTree of the same    *)
(* name, has nothing to compare.  No controller runs here: the requests    *)
(* are alice's and need dry-runs of creates only, or none.                 *)
(***************************************************************************)
\* items: the FolderTrees the List call returned, by name.
validateGlobalUniqueness(items, newTree) ==
    LET newFolderNames == { newTree.spec.folders[i].name : i \in DOMAIN newTree.spec.folders }
        newNamespaces == NamespacesOf(newTree)
        newTreeNodeNames == IF newTree.spec.tree = Nil THEN {}
                            ELSE Range(TreeNodeNames(newTree.spec.tree[1]))
    IN \A name \in DOMAIN items \ {newTree.name} :
          LET existingTree == items[name] IN
          /\ \A i \in DOMAIN existingTree.spec.folders :
                /\ existingTree.spec.folders[i].name \notin newFolderNames
                /\ Range(existingTree.spec.folders[i].namespaces) \cap newNamespaces = {}
          /\ existingTree.spec.tree # Nil =>
                Range(TreeNodeNames(existingTree.spec.tree[1])) \cap newTreeNodeNames = {}

\* Mutant of validateGlobalUniqueness: the namespaces are not compared.
validateGlobalUniqueness_NamesOnly(items, newTree) ==
    LET newFolderNames == { newTree.spec.folders[i].name : i \in DOMAIN newTree.spec.folders }
    IN \A name \in DOMAIN items \ {newTree.name} :
          \A i \in DOMAIN items[name].spec.folders :
              items[name].spec.folders[i].name \notin newFolderNames

UniquePolicy(name, folderName, namespaces) ==
    FolderTree(name,
        FolderTreeSpec(Nil,
            <<Folder(folderName, <<RoleBindingTemplate("editor", <<SubjectX>>, RoleRef("edit"), Nil)>>,
                     namespaces)>>))

\* Two folders of one FolderTree on the same namespace: refused by validateBusinessLogic.
PolicyTwice(name) ==
    FolderTree(name,
        FolderTreeSpec(Nil, <<Folder("team", <<>>, <<"ns1">>), Folder("crew", <<>>, <<"ns1">>)>>))

UniquePolicies ==
    { UniquePolicy(name, folderName, namespaces) :
        name \in {"p1", "p2"}, folderName \in {"team", "crew"},
        namespaces \in {<<"ns1">>, <<"ns2">>, <<"ns1", "ns2">>} }
    \cup { PolicyTwice(name) : name \in {"p1", "p2"} }

\* The writes that may be between the webhook and the store at one time.
MaxInFlight == 2

InitUnique ==
    /\ SystemAtRest
    /\ apiNamespaces = {"ns1", "ns2"}
    /\ adm = Nil
    /\ CalcAtRest
    /\ DiffAtRest
    /\ apiFolderTrees = EmptyMap
    /\ inFlight = {}

\* A create or an update sent by alice passes the webhook: ValidateCreate or
\* ValidateUpdate with the check against the FolderTrees listed at this moment.  A
\* request the webhook refuses leaves nothing behind.
AdmitWrite(obj) ==
    LET old == IF obj.name \in DOMAIN apiFolderTrees THEN Ptr(apiFolderTrees[obj.name]) ELSE Nil
        req == AdmissionRequest("alice", "")
    IN /\ Cardinality(inFlight) < MaxInFlight
       /\ validateGlobalUniqueness(apiFolderTrees, obj)
       /\ \E operations \in WebhookOperationSlices(old, obj) :
             IF old = Nil
             THEN ValidateCreate(req, obj, operations, apiNamespaces, apiRoleBindings).allowed
             ELSE ValidateUpdate(req, old[1], obj, operations, apiNamespaces, apiRoleBindings).allowed
       /\ inFlight' = inFlight \cup {[old |-> old, new |-> obj, items |-> apiFolderTrees]}
       /\ UNCHANGED <<sysVars, adm, calcIn, calcOut, diffIn, diffOut, apiFolderTrees>>

\* The API server persists an admitted write: a create unless the name has been taken
\* in the meantime, an update unless the object has been written or deleted since.
Persist(write) ==
    LET name == write.new.name
        accepted == IF write.old = Nil THEN name \notin DOMAIN apiFolderTrees
                    ELSE name \in DOMAIN apiFolderTrees /\ apiFolderTrees[name] = write.old[1]
    IN /\ write \in inFlight
       /\ inFlight' = inFlight \ {write}
       /\ apiFolderTrees' = IF accepted THEN Put(apiFolderTrees, name, write.new) ELSE apiFolderTrees
       /\ UNCHANGED <<sysVars, adm, calcIn, calcOut, diffIn, diffOut>>

\* A delete sent by system:admin, which ValidateDelete lets through unchecked.
RemoveFolderTree(name) ==
    /\ name \in DOMAIN apiFolderTrees
    /\ \E operations \in DeleteOperationSlices(apiFolderTrees[name]) :
          ValidateDelete(AdmissionRequest(SystemAdmin, ""), apiFolderTrees[name], operations,
                         apiNamespaces, apiRoleBindings).allowed
    /\ apiFolderTrees' = [k \in DOMAIN apiFolderTrees \ {name} |-> apiFolderTrees[k]]
    /\ UNCHANGED <<sysVars, adm, calcIn, calcOut, diffIn, diffOut, inFlight>>

NextUnique ==
    \/ \E obj \in UniquePolicies : AdmitWrite(obj)
    \/ \E write \in inFlight : Persist(write)
    \/ \E name \in {"p1", "p2"} : RemoveFolderTree(name)

SpecUnique == InitUnique /\ [][NextUnique]_vars

(***************************************************************************)
(* C35.  One folder of one policy per namespace.                           *)
(***************************************************************************)
\* The folders, each with the name of its FolderTree, to which ns is assigned.
AssignedTo(items, ns) ==
    { <<name, i>> \in (DOMAIN items) \X {1, 2} :
        i \in DOMAIN items[name].spec.folders /\ ns \in Range(items[name].spec.folders[i].namespaces) }

AssignedOnce(items) == \A ns \in {"ns1", "ns2"} : Cardinality(AssignedTo(items, ns)) <= 1

\* C35: among the stored FolderTrees a namespace is assigned to at most one folder of
\* at most one FolderTree, also when writes that claim it are in flight together.
C35_NamespaceAssignedOnce == AssignedOnce(apiFolderTrees)

\* What the webhook keeps of it: a write persisted while the FolderTrees are those its
\* validation listed leaves every namespace assigned once.
C35_AssignedOnceUnlessOvertaken ==
    [][\A write \in inFlight :
          (/\ inFlight' = inFlight \ {write}
           /\ write.items = apiFolderTrees
           /\ AssignedOnce(apiFolderTrees)) => AssignedOnce(apiFolderTrees')]_vars

\* A second FolderTree was persisted beside the first as its validation had listed it.
C35_WitnessInOrder ==
    /\ DOMAIN apiFolderTrees = {"p1", "p2"}
    /\ AssignedOnce(apiFolderTrees)

\* Within one FolderTree a namespace is assigned to one folder.
C35_AssignedOnceWithinAPolicy ==
    \A name \in DOMAIN apiFolderTrees :
        NoDuplicates(Flatten([i \in DOMAIN apiFolderTrees[name].spec.folders |-> apiFolderTrees[name].spec.folders[i].namespaces]))

(***************************************************************************)
(* C36.  Validated policies have no colliding templates (checked under     *)
(* SpecCalc).                                                              *)
(***************************************************************************)
\* The RoleBindings the calculation is due to write: for every namespace of a folder,
\* one from each template of the folder and one from each propagating template of a
\* folder above it in the tree.
Due(folderTree) ==
    { [namespace |-> ns, roleBindingTemplate |-> t] :
        <<ns, t>> \in UNION { Range(d.namespaces) \X Range(d.roleBindingTemplates) : d \in FoldersOf(folderTree) } }
    \cup
    { [namespace |-> ns, roleBindingTemplate |-> t] :
        <<ns, t>> \in UNION { UNION { Range(d.namespaces) \X { u \in Range(ff.roleBindingTemplates) : ShouldPropagate(u) } :
                                       d \in DescendantFolders(folderTree, f) } :
                               <<f, ff>> \in { x \in TreeNodesOf(folderTree) \X FoldersOf(folderTree) : x[1].name = x[2].name } } }

Validated(folderTree) == validateNewStructure(folderTree) /\ validateBusinessLogic(folderTree)

\* C36: for a FolderTree that passes the validation of a create or an update, no two
\* different templates are due under one namespace and RoleBinding name, and the
\* calculated entry of every key is made from the one template due under it.
C36_ValidatedPolicyHasNoCollision ==
    (CalcDone /\ Validated(calcIn)) =>
        /\ \A a, b \in Due(calcIn) :
              (/\ a.namespace = b.namespace
               /\ RoleBindingName(calcIn.name, a.roleBindingTemplate.name)
                     = RoleBindingName(calcIn.name, b.roleBindingTemplate.name))
                  => a.roleBindingTemplate = b.roleBindingTemplate
        /\ \A a \in Due(calcIn) : GrantFrom(CalcResult, calcIn.name, a.namespace, a.roleBindingTemplate)

\* A validated FolderTree in which a folder inherits one template and defines another,
\* and a template of the same name is defined by a folder outside that chain.
C36_Witness ==
    /\ CalcDone
    /\ Validated(calcIn)
    /\ \E a, b \in Due(calcIn) :
          /\ a.namespace = b.namespace
          /\ a.roleBindingTemplate.name # b.roleBindingTemplate.name
    /\ \E a, b \in Due(calcIn) :
          /\ a.namespace # b.namespace
          /\ a.roleBindingTemplate.name = b.roleBindingTemplate.name
          /\ a.roleBindingTemplate # b.roleBindingTemplate

(***************************************************************************)
(* C37.  A pass keeps to the RoleBindings of its own FolderTree (checked   *)
(* under SpecPair).                                                        *)
(***************************************************************************)
\* The RoleBinding carries the tracking label of the FolderTree.
LabelledFor(roleBinding, folderTreeName) ==
    TreeLabel \in DOMAIN roleBinding.labels /\ roleBinding.labels[TreeLabel] = folderTreeName

\* The keys of the RoleBindings a step has changed or removed.
ChangedOrRemoved(before, after) ==
    { k \in DOMAIN before : k \notin DOMAIN after \/ after[k] # before[k] }

\* C37: whatever the pass of another FolderTree does in between, a step of the pass of
\* p1 changes or removes only RoleBindings that carry the label tree=p1: none labelled
\* for another FolderTree and none without the label.
C37_PassKeepsToItsOwnGrants ==
    [][rec' # rec =>
          \A k \in ChangedOrRemoved(apiRoleBindings, apiRoleBindings') :
              LabelledFor(apiRoleBindings[k], PassPolicy.name)]_vars

\* The pass of p1 has written in ns1 while the RoleBinding of p2 there has been
\* rewritten by p2's pass, an unlabelled RoleBinding holds the desired name in ns2
\* and operations are still pending.
C37_Witness ==
    /\ "ns1/foldertree-p1-editor" \in DOMAIN provenance
    /\ RoleBindingKey(Foreign) \in DOMAIN apiRoleBindings
    /\ apiRoleBindings[RoleBindingKey(Foreign)] # Foreign
    /\ "ns2/foldertree-p1-editor" \in DOMAIN apiRoleBindings
    /\ ~LabelledFor(apiRoleBindings["ns2/foldertree-p1-editor"], PassPolicy.name)
    /\ rec.pc = "exec"

(***************************************************************************)
(* C38.  What the status Ready says of the backend (checked under          *)
(* SpecPass, where the namespaces stay as they are during a pass).         *)
(***************************************************************************)
\* The pass ends, its status write is accepted for the FolderTree it read, and the
\* status holds Ready.
ReadyPass ==
    /\ PassEnds
    /\ PassSucceeded
    /\ ~rec.stale
    /\ HoldsOnly(apiFolderTree', ConditionTypeReady)

\* C38: when a pass ends Ready for the FolderTree as stored, every desired RoleBinding
\* of an existing namespace is live with the desired subjects, roleRef and tracking
\* labels, and no RoleBinding with the label of the tree is live that is not desired.
C38_ReadyMeansLiveIsDesired ==
    [][ReadyPass => LiveIsDesired(apiNamespaces, apiRoleBindings, ManagedKeys)]_vars

\* What Ready does say: the analyzer finds nothing left to do for the live
\* RoleBindings but creates in namespaces that do not exist.
C38_ReadyMeansNoOperationLeft ==
    [][ReadyPass =>
          \A operation \in AnalyzeDiff(apiRoleBindings, apiFolderTree[1], ControllerBuilder(apiFolderTree[1])) :
              operation.type = OperationCreate /\ operation.namespace \notin apiNamespaces]_vars

(***************************************************************************)
(* C39.  Reconciliation comes to rest (checked under FairDrift).           *)
(***************************************************************************)
\* No pass is in progress and no request is queued.
AtRest == rec.pc = "idle" /\ ~queued

\* C39: once the live RoleBindings are the desired ones and nothing but the controller
\* acts, the passes come to an end: from some moment on no pass runs and no request
\* is queued, the status write of a pass queueing no further pass.
C39_ReconciliationStops == (quiet /\ Restored) ~> []AtRest

\* What the controller keeps of it: once the live RoleBindings are the desired ones
\* and nothing but the controller acts, no pass writes a RoleBinding.
C39_PassesAtRestWriteNoGrant ==
    [][(quiet /\ Restored) => apiRoleBindings' = apiRoleBindings]_vars

(***************************************************************************)
(* C40.  The namespace goes between the lookup and the create (checked     *)
(* under Spec).                                                            *)
(***************************************************************************)
\* The executor has found the namespace of a create, the namespace has been deleted
\* since, no call fails for a reason of its own, and the pass takes its next step.
NamespaceGoneBeforeCreate ==
    /\ quiet
    /\ rec.pc = "creating"
    /\ rec.cur[1].namespace \notin apiNamespaces
    /\ rec' # rec

\* C40: the create of a RoleBinding whose namespace was deleted after the lookup is
\* treated like one whose namespace the lookup did not find: the operation is dropped,
\* the pass goes on and the status is left alone.
C40_NamespaceGoneBeforeCreateIsSkipped ==
    [][NamespaceGoneBeforeCreate =>
          /\ rec'.pc = "exec"
          /\ rec'.pending = rec.pending \ {rec.cur[1]}
          /\ apiFolderTree' = apiFolderTree]_vars

\* What the executor does: the error of r.Create ends the pass, the request is queued
\* again, and the status holds ProcessingFailed when its write is accepted.
C40_NamespaceGoneBeforeCreateFailsThePass ==
    [][NamespaceGoneBeforeCreate =>
          /\ rec'.pc = "idle"
          /\ queued'
          /\ apiRoleBindings' = apiRoleBindings
          /\ IF rec.stale THEN apiFolderTree' = apiFolderTree
             ELSE HoldsOnly(apiFolderTree', ConditionTypeProcessingFailed)]_vars

====
